---- MODULE Spec2Model ----
(***************************************************************************)
(* Model of the agentfs filesystem core (sdk/rust/src/filesystem.rs): the  *)
(* SQLite-backed inode / dentry / data-chunk / symlink store and the       *)
(* operations mkdir, write_file, read_file, stat, lstat, readlink,         *)
(* symlink and remove.                                                     *)
(*                                                                         *)
(* Strings are sequences of one-character strings, so that path            *)
(* normalisation is computed as the code computes it.                      *)
(***************************************************************************)
EXTENDS Integers, Sequences, FiniteSets, TLC

(***************************************************************************)
(* Bounds of the model.                                                    *)
(***************************************************************************)
\* chunk_size of the opened store (fs_config row, read once at open)
ChunkSize == 2
\* largest inode number the AUTOINCREMENT sequence may hand out
MaxIno == 3
\* SystemTime::now() stays within 0..MaxTime seconds
MaxTime == 1
\* largest fs_dentry.id the AUTOINCREMENT sequence may hand out
MaxDentryId == 3
\* number of calls each of the overlapping tasks makes
MaxCalls == 2
\* the longest chain of symlinks built, one more than the depth limit
MaxChain == 41

\* inodes created in a run of the directory-listing specification
MaxEntries == 3

\* length of the strings normalize_path is applied to
MaxLen == 5

\* times normalize_path is applied to a string in a row
MaxApplications == 2

\* uids of the callers of the permission gate: 0 .. MaxUid
MaxUid == 2

\* gids of the files the permission gate is asked about: 1 .. MaxGid
MaxGid == 4

\* requested ACCESS3 masks: 0 .. MaxMask (0x3f and the next bit above it)
MaxMask == 127

(***************************************************************************)
(* Program constants.                                                      *)
(***************************************************************************)
S_IFMT == 61440
S_IFREG == 32768
S_IFDIR == 16384
S_IFLNK == 40960
DEFAULT_FILE_MODE == 33188
DEFAULT_DIR_MODE == 16877
SYMLINK_MODE == 41471
ROOT_INO == 1
DEFAULT_CHUNK_SIZE == 4096
max_symlink_depth == 40

\* mode & S_IFMT (the four type bits, 0o170000)
FileType(mode) == ((mode \div 4096) % 16) * 4096

(***************************************************************************)
(* Strings.                                                                *)
(***************************************************************************)
RECURSIVE trim_end_matches(_)
trim_end_matches(s) ==
    IF s # <<>> /\ s[Len(s)] = "/"
    THEN trim_end_matches(SubSeq(s, 1, Len(s) - 1))
    ELSE s

starts_with_slash(s) == s # <<>> /\ s[1] = "/"

RECURSIVE SplitAcc(_, _, _)
SplitAcc(s, cur, acc) ==
    IF s = <<>> THEN Append(acc, cur)
    ELSE IF Head(s) = "/"
         THEN SplitAcc(Tail(s), <<>>, Append(acc, cur))
         ELSE SplitAcc(Tail(s), Append(cur, Head(s)), acc)

\* str::split('/')
split(s) == SplitAcc(s, <<>>, <<>>)

\* split('/').filter(|s| !s.is_empty())
NonEmptyComponents(s) == SelectSeq(split(s), LAMBDA c : c # <<>>)

RECURSIVE JoinSlash(_)
\* components.join("/")
JoinSlash(cs) ==
    IF cs = <<>> THEN <<>>
    ELSE IF Len(cs) = 1 THEN cs[1]
    ELSE cs[1] \o <<"/">> \o JoinSlash(Tail(cs))

RECURSIVE FoldDots(_, _)
\* the loop of normalize_path over the components
FoldDots(cs, result) ==
    IF cs = <<>> THEN result
    ELSE IF Head(cs) = <<".">> THEN FoldDots(Tail(cs), result)
    ELSE IF Head(cs) = <<".", ".">>
         THEN FoldDots(Tail(cs),
                       IF result # <<>> THEN SubSeq(result, 1, Len(result) - 1)
                       ELSE result)
    ELSE FoldDots(Tail(cs), Append(result, Head(cs)))

normalize_path(path) ==
    LET trimmed == trim_end_matches(path) IN
    IF trimmed # <<>> /\ ~starts_with_slash(trimmed)
    THEN <<"/">> \o trimmed
    ELSE LET normalized == IF trimmed = <<>> THEN <<"/">> ELSE trimmed
             result == FoldDots(NonEmptyComponents(normalized), <<>>)
         IN IF result = <<>> THEN <<"/">> ELSE <<"/">> \o JoinSlash(result)

\* mutant: the components of the string as given
split_path_Raw(path) ==
    IF path = <<"/">> THEN <<>> ELSE NonEmptyComponents(path)

split_path(path) ==
    LET normalized == normalize_path(path) IN
    IF normalized = <<"/">> THEN <<>> ELSE NonEmptyComponents(normalized)

\* "/" or "/" + components[..len-1].join("/")
ParentPathOf(components) ==
    IF Len(components) = 1 THEN <<"/">>
    ELSE <<"/">> \o JoinSlash(SubSeq(components, 1, Len(components) - 1))

(***************************************************************************)
(* The store: the five tables behind one shared Connection.                *)
(*   db.inode    fs_inode rows, keyed by ino                               *)
(*   db.dentry   fs_dentry rows (name, parent_ino, ino)                    *)
(*   db.data     fs_data rows (ino, chunk_index, data)                     *)
(*   db.symlink  fs_symlink rows (ino, target)                             *)
(*   db.seq      AUTOINCREMENT sequence of fs_inode                        *)
(*   db.dseq     AUTOINCREMENT sequence of fs_dentry.id                    *)
(*   db.rowid    last_insert_rowid() of the connection: the table of the   *)
(*               last INSERT and the rowid it got.  The implicit rowid of  *)
(*               an fs_data row is not tracked; see LastInsertRowid.       *)
(*   proc[p]     the call that task p is executing or has last completed   *)
(*   clock       what SystemTime::now() returns, in seconds                *)
(*   calls[p]    the number of calls task p has made (overlapping tasks)   *)
(*   lock        the task holding the Mutex of MutexFsAdapter, or Unlocked *)
(***************************************************************************)
VARIABLES db, proc, clock, calls, lock

vars == <<db, proc, clock, calls, lock>>

Procs == {1, 2}

\* no task holds the Mutex around the filesystem
Unlocked == 0

None == 0

Min(a, b) == IF a < b THEN a ELSE b

\* the byte string 1, 2, ..., n
Bytes(n) == [i \in 1 .. n |-> i]

\* byte strings of length 0, 1, chunk_size, chunk_size + 1 and of three
\* chunks
Contents ==
    {Bytes(n) : n \in {0, 1, ChunkSize, ChunkSize + 1, 2 * ChunkSize + 1}}

\* the byte strings the calls of the model write: none, and two chunks
WrittenContents == {Bytes(0), Bytes(ChunkSize + 1)}

InodeRow(mode, size, now) ==
    [mode |-> mode, uid |-> 0, gid |-> 0, size |-> size,
     atime |-> now, mtime |-> now, ctime |-> now]

\* the decimal digits
Digits == <<"0", "1", "2", "3", "4", "5", "6", "7", "8", "9">>

RECURSIVE to_string(_)
\* usize::to_string: the decimal digits of n, most significant first
to_string(n) ==
    IF n < 10 THEN <<Digits[n + 1]>>
    ELSE to_string(n \div 10) \o <<Digits[(n % 10) + 1]>>

\* the value of a digit character
DigitValue(c) == CHOOSE k \in 0 .. 9 : Digits[k + 1] = c

\* the result of a parse that failed
ParseError == -1

RECURSIVE ParseDigits(_, _)
ParseDigits(s, acc) ==
    IF s = <<>> THEN acc
    ELSE IF \A k \in 1 .. 10 : Digits[k] # Head(s) THEN ParseError
    ELSE ParseDigits(Tail(s), 10 * acc + DigitValue(Head(s)))

\* str::parse::<usize>: decimal digits after an optional '+'; the empty
\* string, a lone '+' and any other character are errors
parse_usize(s) ==
    LET digits == IF s # <<>> /\ Head(s) = "+" THEN Tail(s) ELSE s IN
    IF digits = <<>> THEN ParseError ELSE ParseDigits(digits, 0)

\* the fs_config row ('chunk_size', n.to_string()); the column is TEXT
ConfigRow(n) == [key |-> "chunk_size", value |-> to_string(n)]

\* mutant: the root row is inserted with the mode of a regular file
InitialStore_RootFile ==
    [inode   |-> (ROOT_INO :> InodeRow(DEFAULT_FILE_MODE, 0, 0)),
     dentry  |-> {},
     data    |-> {},
     symlink |-> {},
     config  |-> {ConfigRow(ChunkSize)},
     seq     |-> ROOT_INO,
     dseq    |-> 0,
     rowid   |-> [tbl |-> "fs_inode", id |-> ROOT_INO]]

\* the store after initialize_schema, with the chunk_size row of the store
\* the handle of the model was opened on (chunk_size = ChunkSize)
InitialStore ==
    [inode   |-> (ROOT_INO :> InodeRow(DEFAULT_DIR_MODE, 0, 0)),
     dentry  |-> {},
     data    |-> {},
     symlink |-> {},
     config  |-> {ConfigRow(ChunkSize)},
     seq     |-> ROOT_INO,
     dseq    |-> 0,
     rowid   |-> [tbl |-> "fs_inode", id |-> ROOT_INO]]

\* a database without tables (CREATE TABLE IF NOT EXISTS makes them empty)
EmptyStore ==
    [inode   |-> <<>>,
     dentry  |-> {},
     data    |-> {},
     symlink |-> {},
     config  |-> {},
     seq     |-> 0,
     dseq    |-> 0,
     rowid   |-> [tbl |-> "none", id |-> 0]]

\* mutant: the chunk_size row is never found
ConfigRowExists_Never(d) == FALSE

\* SELECT value FROM fs_config WHERE key = 'chunk_size' returns a row
ConfigRowExists(d) == \E r \in d.config : r.key = "chunk_size"

\* INSERT INTO fs_config (key, value) VALUES ('chunk_size', ?)
InsertConfig(d, n) ==
    [d EXCEPT !.config = d.config \cup {ConfigRow(n)},
              !.rowid = [tbl |-> "fs_config", id |-> Cardinality(d.config) + 1]]

\* SELECT ino FROM fs_inode WHERE ino = ROOT_INO returns a row
RootExists(d) == ROOT_INO \in DOMAIN d.inode

\* INSERT INTO fs_inode (ino, mode, ...) VALUES (ROOT_INO, DEFAULT_DIR_MODE, ...)
InsertRoot(d, now) ==
    [d EXCEPT !.inode = d.inode @@ (ROOT_INO :> InodeRow(DEFAULT_DIR_MODE, 0, now)),
              !.seq   = IF d.seq < ROOT_INO THEN ROOT_INO ELSE d.seq,
              !.rowid = [tbl |-> "fs_inode", id |-> ROOT_INO]]

initialize_schema(d, now) ==
    LET c == IF ConfigRowExists(d) THEN d ELSE InsertConfig(d, DEFAULT_CHUNK_SIZE)
    IN IF RootExists(c) THEN c ELSE InsertRoot(c, now)

\* the value column is TEXT, so the row read is Value::Text; a text that
\* does not parse gives the default
read_chunk_size(d) ==
    IF ~ConfigRowExists(d) THEN DEFAULT_CHUNK_SIZE
    ELSE LET row == CHOOSE r \in d.config : r.key = "chunk_size"
             value == parse_usize(row.value)
         IN IF value = ParseError THEN DEFAULT_CHUNK_SIZE ELSE value

(***************************************************************************)
(* Store statements: each is one conn.execute / conn.query of the source.  *)
(***************************************************************************)
\* mutant: a rowid table without AUTOINCREMENT, the new row gets the largest
\* ino in the table plus one
InsertInode_Reuse(d, mode, size, now) ==
    LET ino == 1 + (CHOOSE m \in DOMAIN d.inode : \A k \in DOMAIN d.inode : k <= m) IN
    [d EXCEPT !.inode = d.inode @@ (ino :> InodeRow(mode, size, now)),
              !.seq   = ino,
              !.rowid = [tbl |-> "fs_inode", id |-> ino]]

\* INSERT INTO fs_inode (mode, uid, gid, size, atime, mtime, ctime)
InsertInode(d, mode, size, now) ==
    LET ino == d.seq + 1 IN
    [d EXCEPT !.inode = d.inode @@ (ino :> InodeRow(mode, size, now)),
              !.seq   = ino,
              !.rowid = [tbl |-> "fs_inode", id |-> ino]]

\* mutant: the id read is that of the dentry sequence, not of the inode
LastInsertRowid_Dentry(d, pick) == d.dseq

\* SELECT last_insert_rowid(): the value is the rowid of the connection's
\* last INSERT; after an INSERT INTO fs_data it is that row's implicit
\* rowid, which the model leaves open (pick).
LastInsertRowid(d, pick) ==
    IF d.rowid.tbl = "fs_data" THEN pick ELSE d.rowid.id

\* UNIQUE(parent_ino, name)
DentryExists(d, parent_ino, name) ==
    \E e \in d.dentry : e.parent_ino = parent_ino /\ e.name = name

\* INSERT INTO fs_dentry (name, parent_ino, ino)
InsertDentry(d, name, parent_ino, ino) ==
    [d EXCEPT !.dentry = d.dentry \cup
                  {[name |-> name, parent_ino |-> parent_ino, ino |-> ino]},
              !.dseq   = d.dseq + 1,
              !.rowid  = [tbl |-> "fs_dentry", id |-> d.dseq + 1]]

\* mutant: every dentry of the inode is deleted, not the one named
DeleteDentry_AllLinks(d, parent_ino, name) ==
    LET victims == {e.ino : e \in {x \in d.dentry :
                        x.parent_ino = parent_ino /\ x.name = name}}
    IN [d EXCEPT !.dentry = {e \in d.dentry : e.ino \notin victims}]

\* DELETE FROM fs_dentry WHERE parent_ino = ? AND name = ?
DeleteDentry(d, parent_ino, name) ==
    [d EXCEPT !.dentry =
        {e \in d.dentry : ~(e.parent_ino = parent_ino /\ e.name = name)}]

\* mutant: the chunks are not deleted
DeleteData_Skipped(d, ino) == d

\* DELETE FROM fs_data WHERE ino = ?
DeleteData(d, ino) ==
    [d EXCEPT !.data = {c \in d.data : c.ino # ino}]

\* PRIMARY KEY (ino, chunk_index)
ChunkExists(d, ino, chunk_index) ==
    \E c \in d.data : c.ino = ino /\ c.chunk_index = chunk_index

\* data.chunks(chunk_size).enumerate(): the chunk with index i
ChunkOf(data, i) ==
    SubSeq(data, i * ChunkSize + 1, Min((i + 1) * ChunkSize, Len(data)))

\* mutant: one chunk too many whenever the length is a multiple of chunk_size
NumChunks_OneMore(data) == Len(data) \div ChunkSize + 1

\* number of chunks data.chunks(chunk_size) yields
NumChunks(data) == (Len(data) + ChunkSize - 1) \div ChunkSize

\* INSERT INTO fs_data (ino, chunk_index, data)
InsertChunk(d, ino, chunk_index, chunk) ==
    [d EXCEPT !.data = d.data \cup
                  {[ino |-> ino, chunk_index |-> chunk_index, data |-> chunk]},
              !.rowid = [tbl |-> "fs_data", id |-> 0]]

\* mutant: the update sets atime as well
UpdateSizeMtime_Atime(d, ino, size, now) ==
    IF ino \in DOMAIN d.inode
    THEN [d EXCEPT !.inode[ino].size = size, !.inode[ino].mtime = now,
                   !.inode[ino].atime = now]
    ELSE d

\* UPDATE fs_inode SET size = ?, mtime = ? WHERE ino = ?
UpdateSizeMtime(d, ino, size, now) ==
    IF ino \in DOMAIN d.inode
    THEN [d EXCEPT !.inode[ino].size = size, !.inode[ino].mtime = now]
    ELSE d

\* PRIMARY KEY of fs_symlink
SymlinkRowExists(d, ino) == \E s \in d.symlink : s.ino = ino

\* INSERT INTO fs_symlink (ino, target)
\* mutant: the target is stored normalised, not verbatim
InsertSymlink_Normalized(d, ino, target) ==
    [d EXCEPT !.symlink = d.symlink \cup
                  {[ino |-> ino, target |-> normalize_path(target)]},
              !.rowid   = [tbl |-> "fs_symlink", id |-> ino]]

InsertSymlink(d, ino, target) ==
    [d EXCEPT !.symlink = d.symlink \cup {[ino |-> ino, target |-> target]},
              !.rowid   = [tbl |-> "fs_symlink", id |-> ino]]

\* mutant: the symlink row is left behind
DeleteSymlink_Skipped(d, ino) == d

\* DELETE FROM fs_symlink WHERE ino = ?
DeleteSymlink(d, ino) ==
    [d EXCEPT !.symlink = {s \in d.symlink : s.ino # ino}]

\* DELETE FROM fs_inode WHERE ino = ?
DeleteInode(d, ino) ==
    [d EXCEPT !.inode = [i \in DOMAIN d.inode \ {ino} |-> d.inode[i]]]

\* mutant: a link count that does not follow the dentries
get_link_count_One(d, ino) == 1

\* SELECT COUNT(*) FROM fs_dentry WHERE ino = ?
get_link_count(d, ino) == Cardinality({e \in d.dentry : e.ino = ino})

\* mutant: the directory is never found to have entries
CountChildren_Zero(d, ino) == 0

\* the count taken over the wrong column: the dentries that name ino
CountChildren_Ino(d, ino) == Cardinality({e \in d.dentry : e.ino = ino})

\* SELECT COUNT(*) FROM fs_dentry WHERE parent_ino = ?
CountChildren(d, ino) == Cardinality({e \in d.dentry : e.parent_ino = ino})

\* SELECT COUNT(*) FROM fs_data WHERE ino = ?
get_chunk_count(d, ino) == Cardinality({c \in d.data : c.ino = ino})

\* mutant: the lookup below a symlink continues in the directory that its
\* target names in the root
Lookup_Follow(d, parent_ino, name) ==
    LET links == {s \in d.symlink : s.ino = parent_ino}
        dirs == {e \in d.dentry :
                    /\ e.parent_ino = 1
                    /\ \E s \in links :
                           s.target \in {e.name, <<"/">> \o e.name}}
        from == IF dirs = {} THEN parent_ino ELSE (CHOOSE e \in dirs : TRUE).ino
        rows == {e \in d.dentry : e.parent_ino = from /\ e.name = name}
    IN IF rows = {} THEN 0 ELSE (CHOOSE e \in rows : TRUE).ino

\* SELECT ino FROM fs_dentry WHERE parent_ino = ? AND name = ?
Lookup(d, parent_ino, name) ==
    IF DentryExists(d, parent_ino, name)
    THEN (CHOOSE e \in d.dentry :
              e.parent_ino = parent_ino /\ e.name = name).ino
    ELSE None

RECURSIVE Walk(_, _, _)
Walk(d, current_ino, components) ==
    IF components = <<>> THEN current_ino
    ELSE LET next == Lookup(d, current_ino, Head(components)) IN
         IF next = None THEN None ELSE Walk(d, next, Tail(components))

\* Ok(Some(ino)) is the ino, Ok(None) is None
resolve_path(d, path) == Walk(d, ROOT_INO, split_path(path))

(***************************************************************************)
(* Read operations.  A result is [res, val]: res = "ok" for Ok(Some(val)), *)
(* "absent" for Ok(None), otherwise the error.                             *)
(***************************************************************************)
Absent == [res |-> "absent", val |-> <<>>]
Err(kind) == [res |-> kind, val |-> <<>>]
Some(v) == [res |-> "ok", val |-> v]

build_stats_from_row(d, ino) ==
    LET row == d.inode[ino] IN
    [ino |-> ino, mode |-> row.mode, nlink |-> get_link_count(d, ino),
     uid |-> row.uid, gid |-> row.gid, size |-> row.size,
     atime |-> row.atime, mtime |-> row.mtime, ctime |-> row.ctime]

lstat(d, path) ==
    LET ino == resolve_path(d, normalize_path(path)) IN
    IF ino = None THEN Absent
    ELSE IF ino \notin DOMAIN d.inode THEN Absent
    ELSE Some(build_stats_from_row(d, ino))

readlink(d, path) ==
    LET ino == resolve_path(d, normalize_path(path)) IN
    IF ino = None THEN Absent
    ELSE IF ino \notin DOMAIN d.inode THEN Absent
    ELSE IF FileType(d.inode[ino].mode) # S_IFLNK THEN Err("NotSymlink")
    ELSE IF ~SymlinkRowExists(d, ino) THEN Absent
    ELSE Some((CHOOSE s \in d.symlink : s.ino = ino).target)

\* Path::new(current_path).parent(): the path without its last component
\* (components() drops empty and "." components); None for the root.
PathParent(path) ==
    LET cs == SelectSeq(split(path), LAMBDA c : c # <<>> /\ c # <<".">>) IN
    IF cs = <<>> THEN <<"/">>
    ELSE IF Len(cs) = 1 THEN <<"/">>
    ELSE <<"/">> \o JoinSlash(SubSeq(cs, 1, Len(cs) - 1))

\* parent.join(target) for a relative target
PathJoin(parent, target) ==
    IF parent[Len(parent)] = "/" THEN parent \o target
    ELSE parent \o <<"/">> \o target

\* one round of the loop of stat on current_path: the value returned, or
\* the path to continue with
StatRound(d, current_path) ==
    LET ino == resolve_path(d, current_path) IN
    IF ino = None THEN [continue |-> FALSE, out |-> Absent]
    ELSE IF ino \notin DOMAIN d.inode THEN [continue |-> FALSE, out |-> Absent]
    ELSE IF FileType(d.inode[ino].mode) = S_IFLNK
         THEN LET link == readlink(d, current_path) IN
              IF link.res = "absent"
              THEN [continue |-> FALSE, out |-> Err("SymlinkHasNoTarget")]
              ELSE IF link.res # "ok" THEN [continue |-> FALSE, out |-> link]
              ELSE LET target == link.val
                       next == IF starts_with_slash(target) THEN target
                               ELSE PathJoin(PathParent(current_path), target)
                   IN [continue |-> TRUE, path |-> normalize_path(next)]
    ELSE [continue |-> FALSE, out |-> Some(build_stats_from_row(d, ino))]

RECURSIVE StatLoop(_, _, _)
\* `for _ in 0..max_symlink_depth`, with `left` rounds to go
StatLoop(d, current_path, left) ==
    IF left = 0 THEN Err("TooManySymlinks")
    ELSE LET r == StatRound(d, current_path) IN
         IF r.continue THEN StatLoop(d, r.path, left - 1) ELSE r.out

\* stat that does not follow a terminal symlink
stat_NoFollow(d, path) == lstat(d, path)

stat(d, path) == StatLoop(d, normalize_path(path), max_symlink_depth)

RECURSIVE ConcatChunks(_)
\* the rows of SELECT data ... ORDER BY chunk_index, concatenated
ConcatChunks(rows) ==
    IF rows = {} THEN <<>>
    ELSE LET first == CHOOSE c \in rows :
                          \A o \in rows : c.chunk_index <= o.chunk_index
         IN first.data \o ConcatChunks(rows \ {first})

read_file(d, path) ==
    LET ino == resolve_path(d, path) IN
    IF ino = None THEN Absent
    ELSE Some(ConcatChunks({c \in d.data : c.ino = ino}))

\* the byte of a character of the paths used: '.', '/', 'a' .. 'h'
byte(c) ==
    CASE c = "." -> 46 [] c = "/" -> 47 [] c = "a" -> 97 [] c = "b" -> 98
      [] c = "c" -> 99 [] c = "d" -> 100 [] c = "e" -> 101 [] c = "f" -> 102
      [] c = "g" -> 103 [] c = "h" -> 104

RECURSIVE memcmp_less(_, _)
\* s sorts before t in the store's BINARY collation
memcmp_less(s, t) ==
    IF t = <<>> THEN FALSE
    ELSE IF s = <<>> THEN TRUE
    ELSE IF byte(Head(s)) # byte(Head(t)) THEN byte(Head(s)) < byte(Head(t))
    ELSE memcmp_less(Tail(s), Tail(t))

RECURSIVE OrderByName(_)
\* mutant: rows come back in descending order
OrderByName_Desc(rows) ==
    IF rows = {} THEN <<>>
    ELSE LET first == CHOOSE r \in rows :
                          \A o \in rows \ {r} : ~memcmp_less(r.name, o.name)
         IN <<first.name>> \o OrderByName(rows \ {first})

\* the name column of the selected dentry rows, ORDER BY name
OrderByName(rows) ==
    IF rows = {} THEN <<>>
    ELSE LET first == CHOOSE r \in rows :
                          \A o \in rows \ {r} : ~memcmp_less(o.name, r.name)
         IN <<first.name>> \o OrderByName(rows \ {first})

\* if !name.is_empty() { entries.push(name) }
NonEmptyName(name) == name # <<>>

readdir(d, path) ==
    LET ino == resolve_path(d, path) IN
    IF ino = None THEN Absent
    ELSE Some(SelectSeq(OrderByName({x \in d.dentry : x.parent_ino = ino}),
                        NonEmptyName))

(***************************************************************************)
(* Mutating operations.  A call is a frame: the operation, its arguments,  *)
(* its local variables and pc, the Store call it is suspended at (every    *)
(* conn.execute / conn.query is an await point; resolve_path is taken as   *)
(* one read).  A completed call keeps its arguments and result.            *)
(***************************************************************************)
\* placeholder for "no snapshot taken"
NoSnapshot == [InitialStore EXCEPT !.inode = <<>>, !.seq = 0, !.rowid.id = 0]

Idle ==
    [op |-> "none", pc |-> "done", raw |-> <<>>, path |-> <<>>,
     parent_ino |-> 0, ino |-> 0, data |-> <<>>, target |-> <<>>,
     idx |-> 0, res |-> "none", pre |-> NoSnapshot]

\* the call has returned res
Fin(f, res) ==
    [Idle EXCEPT !.op = f.op, !.res = res, !.raw = f.raw,
                 !.ino = IF res \in {"ok", "StoreError"} THEN f.ino ELSE 0,
                 !.data = IF res = "ok" THEN f.data ELSE <<>>,
                 !.target = IF res = "ok" THEN f.target ELSE <<>>,
                 !.pre = IF res = "StoreError" THEN f.pre ELSE NoSnapshot]

\* the call is made: the code up to the first Store call
Begin(op, raw, data, target, snapshot) ==
    LET path == normalize_path(raw)
        f == [Idle EXCEPT !.op = op, !.raw = raw, !.path = path,
                          !.data = data, !.target = target,
                          !.res = "none", !.pre = snapshot]
    IN IF split_path(path) = <<>> THEN Fin(f, "IsRoot")
       ELSE [f EXCEPT !.pc = IF op = "remove" THEN "resolve_path"
                             ELSE "resolve_parent"]

NameOf(f) == LET cs == split_path(f.path) IN cs[Len(cs)]

\* where write_file goes once it has the inode: the chunk loop or the UPDATE
AfterInode(f) ==
    IF NumChunks(f.data) = 0 THEN [f EXCEPT !.pc = "update"]
    ELSE [f EXCEPT !.pc = "chunk", !.idx = 0]

Out(d, f) == [db |-> d, f |-> f]

\* the Store call at f.pc and the code that follows it up to the next one
Step(d, f, pick, now) ==
    CASE f.pc = "resolve_parent" ->
           LET r == resolve_path(d, ParentPathOf(split_path(f.path))) IN
           IF r = None THEN Out(d, Fin(f, "NotFound"))
           ELSE Out(d, [f EXCEPT !.parent_ino = r,
                                 !.pc = CASE f.op = "remove" -> "delete_dentry"
                                          [] f.op = "write_file" -> "resolve_path"
                                          [] OTHER -> "check_exists"])
      [] f.pc = "check_exists" ->
           IF resolve_path(d, f.path) # None THEN Out(d, Fin(f, "Exists"))
           ELSE Out(d, [f EXCEPT !.pc = "insert_inode"])
      [] f.pc = "resolve_path" /\ f.op = "write_file" ->
           LET r == resolve_path(d, f.path) IN
           IF r # None THEN Out(d, [f EXCEPT !.ino = r, !.pc = "delete_data"])
           ELSE Out(d, [f EXCEPT !.pc = "insert_inode"])
      [] f.pc = "resolve_path" /\ f.op = "remove" ->
           LET r == resolve_path(d, f.path) IN
           IF r = None THEN Out(d, Fin(f, "NotFound"))
           ELSE IF r = ROOT_INO THEN Out(d, Fin(f, "IsRoot"))
           ELSE Out(d, [f EXCEPT !.ino = r, !.pc = "count_children"])
      [] f.pc = "count_children" ->
           IF CountChildren(d, f.ino) > 0 THEN Out(d, Fin(f, "NotEmpty"))
           ELSE Out(d, [f EXCEPT !.pc = "resolve_parent"])
      [] f.pc = "insert_inode" ->
           Out(InsertInode(d,
                        CASE f.op = "mkdir" -> DEFAULT_DIR_MODE
                          [] f.op = "write_file" -> DEFAULT_FILE_MODE
                          [] OTHER -> SYMLINK_MODE,
                        CASE f.op = "mkdir" -> 0
                          [] f.op = "write_file" -> Len(f.data)
                          [] OTHER -> Len(f.target),
                        now),
                    [f EXCEPT !.pc = "rowid"])
      [] f.pc = "rowid" ->
           Out(d, [f EXCEPT !.ino = LastInsertRowid(d, pick),
                            !.pc = IF f.op = "symlink" THEN "insert_symlink"
                                   ELSE "insert_dentry"])
      [] f.pc = "insert_symlink" ->
           IF SymlinkRowExists(d, f.ino) THEN Out(d, Fin(f, "StoreError"))
           ELSE Out(InsertSymlink(d, f.ino, f.target),
                    [f EXCEPT !.pc = "insert_dentry"])
      [] f.pc = "insert_dentry" ->
           IF DentryExists(d, f.parent_ino, NameOf(f))
           THEN Out(d, Fin(f, "StoreError"))
           ELSE Out(InsertDentry(d, NameOf(f), f.parent_ino, f.ino),
                    IF f.op = "write_file" THEN AfterInode(f) ELSE Fin(f, "ok"))
      [] f.pc = "delete_data" /\ f.op = "write_file" ->
           Out(DeleteData(d, f.ino), AfterInode(f))
      [] f.pc = "chunk" ->
           IF ChunkExists(d, f.ino, f.idx) THEN Out(d, Fin(f, "StoreError"))
           ELSE Out(InsertChunk(d, f.ino, f.idx, ChunkOf(f.data, f.idx)),
                    IF f.idx + 1 < NumChunks(f.data)
                    THEN [f EXCEPT !.idx = f.idx + 1]
                    ELSE [f EXCEPT !.pc = "update"])
      [] f.pc = "update" ->
           Out(UpdateSizeMtime(d, f.ino, Len(f.data), now), Fin(f, "ok"))
      [] f.pc = "delete_dentry" ->
           Out(DeleteDentry(d, f.parent_ino, NameOf(f)),
               [f EXCEPT !.pc = "link_count"])
      [] f.pc = "link_count" ->
           IF get_link_count(d, f.ino) = 0
           THEN Out(d, [f EXCEPT !.pc = "delete_data"])
           ELSE Out(d, Fin(f, "ok"))
      [] f.pc = "delete_data" /\ f.op = "remove" ->
           Out(DeleteData(d, f.ino), [f EXCEPT !.pc = "delete_symlink"])
      [] f.pc = "delete_symlink" ->
           Out(DeleteSymlink(d, f.ino), [f EXCEPT !.pc = "delete_inode"])
      [] f.pc = "delete_inode" ->
           Out(DeleteInode(d, f.ino), Fin(f, "ok"))

RECURSIVE Run(_, _, _)
\* the call runs to its return with no other task and no clock tick in
\* between
Run(d, f, now) ==
    IF f.pc = "done" THEN Out(d, f)
    ELSE LET o == Step(d, f, None, now) IN Run(o.db, o.f, now)

\* mkdir with the inode inserted before the existence check is acted on
mkdir_InodeFirst(d, path, now) ==
    LET o == Run(d, Begin("mkdir", path, <<>>, <<>>, NoSnapshot), now) IN
    IF o.f.res = "Exists"
    THEN Out(InsertInode(o.db, DEFAULT_DIR_MODE, 0, now), o.f)
    ELSE o

mkdir(d, path, now) ==
    Run(d, Begin("mkdir", path, <<>>, <<>>, NoSnapshot), now)

write_file(d, path, data, now) ==
    Run(d, Begin("write_file", path, data, <<>>, NoSnapshot), now)

symlink(d, target, linkpath, now) ==
    Run(d, Begin("symlink", linkpath, <<>>, target, NoSnapshot), now)

remove(d, path) ==
    Run(d, Begin("remove", path, <<>>, <<>>, NoSnapshot), 0)

(***************************************************************************)
(* link(old, new) is part of the FileSystem trait (fuse.rs calls it) but   *)
(* its implementation is not in the sources at hand; it is modelled from   *)
(* the specification: old must exist and not be a directory, new must not  *)
(* exist and its parent must be a directory, one dentry is inserted and    *)
(* ctime of the inode is updated, all in one transaction.                  *)
(***************************************************************************)
link(d, old, new, now) ==
    LET f == [Idle EXCEPT !.op = "link", !.raw = new, !.target = old,
                          !.res = "none"]
        ino == resolve_path(d, normalize_path(old))
        cs == split_path(normalize_path(new))
        parent == resolve_path(d, ParentPathOf(cs))
        g == [f EXCEPT !.ino = ino]
    IN IF ino = None \/ ino \notin DOMAIN d.inode THEN Out(d, Fin(f, "NotFound"))
       ELSE IF FileType(d.inode[ino].mode) = S_IFDIR
            THEN Out(d, Fin(g, "IsDirectory"))
       ELSE IF cs = <<>> THEN Out(d, Fin(g, "Exists"))
       ELSE IF parent = None \/ parent \notin DOMAIN d.inode
            THEN Out(d, Fin(g, "NotFound"))
       ELSE IF FileType(d.inode[parent].mode) # S_IFDIR
            THEN Out(d, Fin(g, "NotDirectory"))
       ELSE IF DentryExists(d, parent, cs[Len(cs)]) THEN Out(d, Fin(g, "Exists"))
       ELSE Out([InsertDentry(d, cs[Len(cs)], parent, ino)
                    EXCEPT !.inode[ino].ctime = now],
                Fin(g, "ok"))

(***************************************************************************)
(* Inputs.                                                                 *)
(***************************************************************************)
\* spellings of the root: "/", "", ".", "..", "/a/.."
RootSpellings ==
    {<<"/">>, <<>>, <<".">>, <<".", ".">>, <<"/", "a", "/", ".", ".">>}

\* "/a", "/b", "/a/b", "a", "./a", "/a/", "a/../b", "a//b", "/a/./b//"
PathInputs ==
    RootSpellings \cup
    {<<"/", "a">>, <<"/", "b">>, <<"/", "a", "/", "b">>, <<"a">>,
     <<".", "/", "a">>, <<"/", "a", "/">>,
     <<"a", "/", ".", ".", "/", "b">>,
     <<"a", "/", "/", "b">>,
     <<"/", "a", "/", ".", "/", "b", "/", "/">>}

\* the paths the calls of the model are made on: "/", "/a", "/a/b" and the
\* relative spelling "./a"
CallPaths ==
    {<<"/">>, <<"/", "a">>, <<"/", "a", "/", "b">>, <<".", "/", "a">>}

\* the paths of the hard links: "/a", "/b"
LinkPaths == {<<"/", "a">>, <<"/", "b">>}

\* symlink targets "/a" and "b"
Targets == {<<"/", "a">>, <<"b">>}

\* targets a symlink call may be given: those above, the empty target and
\* "../a/"
TargetInputs == Targets \cup {<<>>, <<".", ".", "/", "a", "/">>}

(***************************************************************************)
(* Calls issued one at a time: task 1 makes a call and runs it to its      *)
(* return before the next call is made.                                    *)
(***************************************************************************)
Quiescent == \A p \in Procs : proc[p].pc = "done"

\* the AUTOINCREMENT sequences of the store are within the bounds explored
WithinBounds(d) == d.seq <= MaxIno /\ d.dseq <= MaxDentryId

Returns(o) ==
    /\ Quiescent
    /\ WithinBounds(o.db)
    /\ db' = o.db
    /\ proc' = [proc EXCEPT ![1] = o.f]
    /\ UNCHANGED <<clock, calls, lock>>

Mkdir == \E path \in CallPaths : Returns(mkdir(db, path, clock))

WriteFile ==
    \E path \in CallPaths, data \in WrittenContents :
        Returns(write_file(db, path, data, clock))

Symlink ==
    \E target \in Targets, linkpath \in CallPaths :
        Returns(symlink(db, target, linkpath, clock))

Remove == \E path \in CallPaths : Returns(remove(db, path))

Link ==
    \E old \in LinkPaths, new \in LinkPaths :
        Returns(link(db, old, new, clock))

RemoveLink == \E path \in LinkPaths : Returns(remove(db, path))

\* a second passes
Tick ==
    /\ clock < MaxTime
    /\ clock' = clock + 1
    /\ UNCHANGED <<db, proc, calls, lock>>

Init ==
    /\ db = InitialStore
    /\ proc = [p \in Procs |-> Idle]
    /\ clock = 0
    /\ calls = [p \in Procs |-> 0]
    /\ lock = Unlocked

Next == Mkdir \/ WriteFile \/ Symlink \/ Remove

Spec == Init /\ [][Next]_vars

\* the same operations with the clock advancing between them
NextClock == Next \/ Tick

SpecClock == Init /\ [][NextClock]_vars

NextLink == Mkdir \/ WriteFile \/ Link \/ RemoveLink

SpecLink == Init /\ [][NextLink]_vars

last == proc[1]

(***************************************************************************)
(* Calls that overlap: tasks sharing the connection (clones of the         *)
(* Filesystem) each run a call, one Store call at a time; between two      *)
(* Store calls of one task those of the other may run.  The code opens no  *)
(* transaction, so every statement commits on its own.                     *)
(***************************************************************************)
\* the paths of the overlapping calls: "/a", "/a/b"
TaskPaths == {<<"/", "a">>, <<"/", "a", "/", "b">>}

\* the symlink target of the overlapping calls: "/a"
TaskTargets == {<<"/", "a">>}

Calls(p, f) ==
    /\ proc[p].pc = "done"
    /\ calls[p] < MaxCalls
    /\ proc' = [proc EXCEPT ![p] = f]
    /\ calls' = [calls EXCEPT ![p] = calls[p] + 1]
    /\ UNCHANGED <<db, clock, lock>>

CallMkdir(p, snapshot) ==
    \E path \in TaskPaths : Calls(p, Begin("mkdir", path, <<>>, <<>>, snapshot))

\* what task p writes: chunk_size + p - 1 bytes, each of value p
TaskContents(p) == {[i \in 1 .. (ChunkSize + p - 1) |-> p]}

CallWriteFile(p, snapshot) ==
    \E path \in TaskPaths, data \in TaskContents(p) :
        Calls(p, Begin("write_file", path, data, <<>>, snapshot))

CallSymlink(p, snapshot) ==
    \E target \in TaskTargets, linkpath \in TaskPaths :
        Calls(p, Begin("symlink", linkpath, <<>>, target, snapshot))

CallRemove(p, snapshot) ==
    \E path \in TaskPaths : Calls(p, Begin("remove", path, <<>>, <<>>, snapshot))

\* the Store call task p is suspended at completes
StoreCall(p) ==
    /\ proc[p].pc # "done"
    /\ \E pick \in 1 .. MaxIno :
           LET o == Step(db, proc[p], pick, clock) IN
           /\ WithinBounds(o.db)
           /\ db' = o.db
           /\ proc' = [proc EXCEPT ![p] = o.f]
    /\ UNCHANGED <<clock, calls, lock>>

\* the Store call task p is suspended at returns an error, which the `?`
\* hands to the caller
StoreFails(p) ==
    /\ proc[p].pc # "done"
    /\ proc' = [proc EXCEPT ![p] = Fin(proc[p], "StoreError")]
    /\ UNCHANGED <<db, clock, calls, lock>>

NextTasks ==
    \E p \in Procs :
        \/ CallMkdir(p, NoSnapshot)
        \/ CallWriteFile(p, NoSnapshot)
        \/ CallSymlink(p, NoSnapshot)
        \/ CallRemove(p, NoSnapshot)
        \/ StoreCall(p)

SpecTasks == Init /\ [][NextTasks]_vars

\* one task, whose Store calls may fail
NextFail ==
    \/ CallMkdir(1, db)
    \/ CallWriteFile(1, db)
    \/ CallSymlink(1, db)
    \/ CallRemove(1, db)
    \/ StoreCall(1)
    \/ StoreFails(1)

SpecFail == Init /\ [][NextFail]_vars

(***************************************************************************)
(* Chains of symlinks: "/f" is the end of the chain, the k-th link is a    *)
(* path of two letters and points to the (k-1)-th.  The end is a           *)
(* file, a directory, missing, or a symlink back into the chain.           *)
(***************************************************************************)
\* the letters of the links' names
Letters == <<"a", "b", "c", "d", "e", "g", "h">>

\* "/f" for the end, "/aa", "/ab", ... for the links
X(k) ==
    IF k = 0 THEN <<"/", "f">>
    ELSE <<"/", Letters[((k - 1) \div Len(Letters)) + 1],
                Letters[((k - 1) % Len(Letters)) + 1]>>

\* the number of links of the chain in store d
ChainLen(d) == Cardinality({e \in d.dentry : e.name # <<"f">>})

ChainReturns(o) ==
    /\ Quiescent
    /\ o.db.seq <= MaxChain + 2
    /\ db' = o.db
    /\ proc' = [proc EXCEPT ![1] = o.f]
    /\ UNCHANGED <<clock, calls, lock>>

ChainLink ==
    /\ ChainLen(db) < MaxChain
    /\ ChainReturns(symlink(db, X(ChainLen(db)), X(ChainLen(db) + 1), clock))

\* the end of the chain is made once, while "/f" is missing
ChainEndFile ==
    /\ resolve_path(db, X(0)) = None
    /\ \E data \in WrittenContents :
           ChainReturns(write_file(db, X(0), data, clock))

ChainEndDir ==
    /\ resolve_path(db, X(0)) = None
    /\ ChainReturns(mkdir(db, X(0), clock))

\* "/f" becomes a symlink to the last link by its absolute path, or to
\* the first link by the relative path "aa"
ChainEndLoop ==
    /\ resolve_path(db, X(0)) = None
    /\ ChainLen(db) >= 1
    /\ \E target \in {X(ChainLen(db)), Tail(X(1))} :
           ChainReturns(symlink(db, target, X(0), clock))

NextChain == ChainLink \/ ChainEndFile \/ ChainEndDir \/ ChainEndLoop

SpecChain == Init /\ [][NextChain]_vars

(***************************************************************************)
(* Properties of the store.                                                *)
(***************************************************************************)
IsRegular(d, ino) == FileType(d.inode[ino].mode) = S_IFREG

ChunksOfIno(d, ino) == {c \in d.data : c.ino = ino}

\* I6 for one inode: indices 0..k-1 with k = ceil(size / chunk_size), full
\* chunks except possibly the last
ChunksDense(d, ino) ==
    LET size == d.inode[ino].size
        k == (size + ChunkSize - 1) \div ChunkSize
        rows == ChunksOfIno(d, ino)
    IN /\ {c.chunk_index : c \in rows} = 0 .. (k - 1)
       /\ Cardinality(rows) = k
       /\ (k = 0) <=> (size = 0)
       /\ \A c \in rows :
              /\ Len(c.data) <= ChunkSize
              /\ Len(c.data) >= 1
              /\ c.chunk_index < k - 1 => Len(c.data) = ChunkSize

AllFilesDense(d) ==
    \A ino \in DOMAIN d.inode : IsRegular(d, ino) => ChunksDense(d, ino)

RECURSIVE ReachFrom(_, _)
\* the inode numbers a chain of dentries leads to from the set S
ReachFrom(d, S) ==
    LET T == S \cup {e.ino : e \in {x \in d.dentry : x.parent_ino \in S}} IN
    IF T = S THEN S ELSE ReachFrom(d, T)

NoOrphan(d) == DOMAIN d.inode \subseteq ReachFrom(d, {ROOT_INO})

DentriesResolve(d) == \A e \in d.dentry : e.ino \in DOMAIN d.inode

RootIsDirectory(d) ==
    /\ ROOT_INO \in DOMAIN d.inode
    /\ FileType(d.inode[ROOT_INO].mode) = S_IFDIR

(***************************************************************************)
(* Claims, calls issued one at a time (Spec, SpecLink).                    *)
(***************************************************************************)
\* C1: if write_file(p, b) succeeds then the next read_file(p) returns
\* Some(b) byte for byte and stat(p).size = |b|.
C1_WriteThenRead ==
    (last.op = "write_file" /\ last.res = "ok") =>
        /\ read_file(db, last.raw) = Some(last.data)
        /\ stat(db, last.raw).res = "ok"
        /\ stat(db, last.raw).val.size = Len(last.data)

\* C2: after every completed write_file or remove each regular-file inode
\* has the chunk indices 0..k-1, k = ceil(size / chunk_size), every chunk
\* holds at most chunk_size bytes and only the last may be shorter; this
\* also holds after a write_file of any of the contents of every length
\* class (0, 1, chunk_size, chunk_size + 1, three chunks).
C2_ChunksDense ==
    /\ AllFilesDense(db)
    /\ \A path \in CallPaths, data \in Contents :
           AllFilesDense(write_file(db, path, data, clock).db)

C2_Witness ==
    /\ last.op = "write_file" /\ last.res = "ok"
    /\ last.ino \in DOMAIN db.inode
    /\ IsRegular(db, last.ino)
    /\ get_chunk_count(db, last.ino) = 2
    /\ db.inode[last.ino].size = ChunkSize + 1

\* C3: when remove(p) succeeds and no dentry references the inode any
\* more, fs_inode has no row of that inode, fs_data no chunk of it and
\* fs_symlink no row of it.
C3_LastLinkRemoved ==
    (last.op = "remove" /\ last.res = "ok"
        /\ get_link_count(db, last.ino) = 0) =>
        /\ last.ino \notin DOMAIN db.inode
        /\ ChunksOfIno(db, last.ino) = {}
        /\ ~SymlinkRowExists(db, last.ino)

C3_Witness ==
    /\ last.op = "remove" /\ last.res = "ok"
    /\ last.ino # None
    /\ get_link_count(db, last.ino) = 0
    /\ last.ino \notin DOMAIN db.inode

\* C4: a remove(p) that succeeds on an inode another dentry still
\* references deletes only the dentry (parent of p, last name of p): the
\* inode rows, the chunks, the symlink rows and every other dentry are
\* unchanged, nlink of the inode decreases by exactly 1 and the data reads
\* the same through every remaining name.
C4_RemoveOneLink ==
    [][LET f == proc'[1]
           cs == split_path(normalize_path(f.raw))
           gone == [name |-> cs[Len(cs)],
                    parent_ino |-> resolve_path(db, ParentPathOf(cs)),
                    ino |-> f.ino]
       IN (f.op = "remove" /\ f.res = "ok" /\ db' # db
              /\ get_link_count(db, f.ino) >= 2) =>
              /\ db'.inode = db.inode
              /\ db'.data = db.data
              /\ db'.symlink = db.symlink
              /\ gone \in db.dentry
              /\ db'.dentry = db.dentry \ {gone}
              /\ get_link_count(db', f.ino) = get_link_count(db, f.ino) - 1
              /\ build_stats_from_row(db', f.ino).nlink
                     = build_stats_from_row(db, f.ino).nlink - 1
              /\ \A q \in LinkPaths :
                     resolve_path(db', q) = f.ino =>
                         /\ read_file(db', q).res = "ok"
                         /\ read_file(db', q) = read_file(db, q)
      ]_vars

C4_Witness ==
    /\ last.op = "remove" /\ last.res = "ok"
    /\ last.ino \in DOMAIN db.inode
    /\ get_link_count(db, last.ino) >= 1
    /\ get_chunk_count(db, last.ino) = 2
    /\ \E q \in LinkPaths :
           /\ resolve_path(db, q) = last.ino
           /\ read_file(db, q) = Some(Bytes(ChunkSize + 1))

\* C5: after every completed mkdir, write_file, symlink or remove every
\* inode other than the root is reachable from the root by a chain of
\* dentries.
C5_NoOrphan == NoOrphan(db)

C5_Witness ==
    /\ last.op = "remove" /\ last.res = "ok"
    /\ \E e \in db.dentry : e.parent_ino = ROOT_INO
    /\ Cardinality(DOMAIN db.inode) = 2

\* C6: after every completed mkdir, write_file, symlink or remove the ino
\* of every dentry is the ino of an fs_inode row.
C6_DentriesResolve == DentriesResolve(db)

C6_Witness ==
    /\ last.res = "ok"
    /\ Cardinality(db.dentry) = 2
    /\ \E e \in db.dentry : e.parent_ino # ROOT_INO

\* C7: the inode 1 exists and is a directory in every reachable state,
\* and no mkdir, write_file, symlink or remove on any spelling of the
\* root ("/", "", ".", "..", "/a/..") changes that.
C7_RootIsDirectory ==
    /\ RootIsDirectory(db)
    /\ \A path \in RootSpellings :
           /\ RootIsDirectory(mkdir(db, path, clock).db)
           /\ RootIsDirectory(remove(db, path).db)
           /\ \A data \in WrittenContents :
                  RootIsDirectory(write_file(db, path, data, clock).db)
           /\ \A target \in Targets :
                  RootIsDirectory(symlink(db, target, path, clock).db)

C7_Witness ==
    /\ last.op = "remove" /\ last.res = "IsRoot"
    /\ Cardinality(DOMAIN db.inode) > 1
    /\ RootIsDirectory(db)

\* the four tables of the store, without the connection's bookkeeping
Tables(d) ==
    [inode |-> d.inode, dentry |-> d.dentry, data |-> d.data,
     symlink |-> d.symlink]

\* C8: while a mutating operation of one task is in flight, the store that an
\* operation of another task would read shows none of its writes half
\* applied: no inode without a dentry chain from the root, no regular file
\* whose chunks disagree with its size, no dentry without its inode.
C8_NoPartialState ==
    (\E p \in Procs : proc[p].pc # "done")
        => (NoOrphan(db) /\ AllFilesDense(db) /\ DentriesResolve(db))

CreatingOps == {"mkdir", "symlink", "write_file"}

\* tasks p and q have each made one call, a creating operation on the same
\* path, and both have returned
Raced(p, q) ==
    /\ p # q
    /\ Quiescent
    /\ calls[p] = 1 /\ calls[q] = 1
    /\ proc[p].op \in CreatingOps /\ proc[q].op \in CreatingOps
    /\ normalize_path(proc[p].raw) = normalize_path(proc[q].raw)

\* C9: when two creating operations on the same new path overlap and one of
\* them fails, it fails with Exists and the tables are those the successful
\* one alone produces: the failed one leaves no row behind.
C9_CreateRace ==
    \A p, q \in Procs :
        (Raced(p, q) /\ proc[p].res = "ok" /\ proc[q].res # "ok")
            => /\ proc[q].res = "Exists"
               /\ Tables(db) =
                    Tables(Run(InitialStore,
                               Begin(proc[p].op, proc[p].raw, proc[p].data,
                                     proc[p].target, NoSnapshot),
                               clock).db)

\* C10: an operation that returns because one of its Store calls failed
\* leaves every table as it was when the operation began.
C10_FailureRollsBack ==
    \A p \in Procs :
        (proc[p].pc = "done" /\ proc[p].res = "StoreError")
            => Tables(db) = Tables(proc[p].pre)

IsDirectory(d, ino) ==
    ino \in DOMAIN d.inode /\ FileType(d.inode[ino].mode) = S_IFDIR

\* C11: the parent_ino of every dentry is a directory inode: mkdir,
\* write_file and symlink refuse a parent that is a regular file or a
\* symlink.
C11_ParentIsDirectory ==
    \A e \in db.dentry : IsDirectory(db, e.parent_ino)

\* C12: no directory inode owns a data chunk, and a write_file that
\* succeeded was not made on a directory.
C12_NoDirectoryChunks ==
    /\ \A c \in db.data : ~IsDirectory(db, c.ino)
    /\ (last.op = "write_file" /\ last.res = "ok") => ~IsDirectory(db, last.ino)

\* C13: read_file on a path that resolves to an inode that is not a regular
\* file (a directory or a symlink) fails with NotFile.
C13_ReadNonFile ==
    \A path \in CallPaths :
        LET ino == resolve_path(db, path) IN
        (ino # None /\ ino \in DOMAIN db.inode /\ ~IsRegular(db, ino))
            => read_file(db, path).res = "NotFile"

\* C14: readdir on a path that resolves to an inode that is not a directory
\* fails with NotDirectory.
C14_ReaddirNonDirectory ==
    \A path \in CallPaths :
        LET ino == resolve_path(db, path) IN
        (ino # None /\ ino \in DOMAIN db.inode /\ ~IsDirectory(db, ino))
            => readdir(db, path).res = "NotDirectory"

\* the call op(raw) made on store d does not meet its precondition: the path
\* normalises to "/", the parent does not resolve, the leaf exists (mkdir,
\* symlink) or the path does not resolve (remove)
Rejected(d, op, raw) ==
    LET path == normalize_path(raw)
        cs == split_path(path)
    IN \/ cs = <<>>
       \/ resolve_path(d, ParentPathOf(cs)) = None
       \/ op \in {"mkdir", "symlink"} /\ resolve_path(d, path) # None
       \/ op = "remove" /\ resolve_path(d, path) = None

\* C15: a mkdir, write_file, symlink or remove call that does not meet its
\* precondition returns an error and changes no row of fs_inode, fs_dentry,
\* fs_data or fs_symlink.
C15_RejectedChangesNothing ==
    [][Rejected(db, last'.op, last'.raw)
         => /\ last'.res \in {"IsRoot", "NotFound", "Exists"}
            /\ Tables(db') = Tables(db)]_vars

C15_Witness ==
    /\ last.op = "symlink" /\ last.res = "Exists"
    /\ Cardinality(db.dentry) = 2
    /\ db.data # {}

\* C16: remove(p) on a directory with at least one dentry whose parent_ino
\* is its inode fails with NotEmpty and changes nothing; remove(p) on a
\* directory with no such dentry succeeds and deletes its dentry and its
\* inode.
C16_RemoveDirectory ==
    [][\A ino \in DOMAIN db.inode :
         (/\ last'.op = "remove"
          /\ resolve_path(db, normalize_path(last'.raw)) = ino
          /\ ino # ROOT_INO
          /\ IsDirectory(db, ino))
         => IF \E e \in db.dentry : e.parent_ino = ino
            THEN last'.res = "NotEmpty" /\ Tables(db') = Tables(db)
            ELSE /\ last'.res = "ok"
                 /\ ino \notin DOMAIN db'.inode
                 /\ db'.dentry = {e \in db.dentry : e.ino # ino}
                 /\ Cardinality(db'.dentry) = Cardinality(db.dentry) - 1]_vars

C16_Witness ==
    /\ last.op = "remove" /\ last.res = "NotEmpty"
    /\ LET ino == resolve_path(db, normalize_path(last.raw)) IN
       /\ IsDirectory(db, ino)
       /\ ino # ROOT_INO
       /\ CountChildren(db, ino) = 1

IsSymlink(d, ino) ==
    ino \in DOMAIN d.inode /\ FileType(d.inode[ino].mode) = S_IFLNK

\* the path the symlink at path p points to: its stored target, taken
\* against the directory of p when relative
Hop(d, p) ==
    LET ino == resolve_path(d, p)
        target == (CHOOSE s \in d.symlink : s.ino = ino).target
    IN IF starts_with_slash(target) THEN normalize_path(target)
       ELSE normalize_path(PathJoin(PathParent(p), target))

RECURSIVE Follow(_, _, _)
\* where following the terminal symlinks from p ends, and after how many
\* hops: at an inode that is no symlink, at a path that does not resolve,
\* or never (more hops than there are symlinks: a cycle)
Follow(d, p, hops) ==
    LET ino == resolve_path(d, p) IN
    IF hops > Cardinality(d.symlink)
    THEN [end |-> "cycle", ino |-> None, hops |-> hops]
    ELSE IF ino = None \/ ino \notin DOMAIN d.inode
    THEN [end |-> "missing", ino |-> None, hops |-> hops]
    ELSE IF IsSymlink(d, ino) /\ SymlinkRowExists(d, ino)
    THEN Follow(d, Hop(d, p), hops + 1)
    ELSE [end |-> "inode", ino |-> ino, hops |-> hops]

ChainEnd(d, path) == Follow(d, normalize_path(path), 0)

\* the paths of the chain in store d that are queried: its end, its first
\* link, its middle link and its last link
ChainPaths(d) == {X(0), X(1), X(ChainLen(d) \div 2), X(ChainLen(d))}

\* C17: stat on a path whose chain of symlinks is cyclic fails with
\* TooManySymlinks: it returns neither Stats nor absent.
C17_CyclicStat ==
    \A path \in ChainPaths(db) :
        ChainEnd(db, path).end = "cycle"
            => stat(db, path).res = "TooManySymlinks"

\* "/f" -> "/aa" and "/aa" -> "/f"
C17_Witness ==
    /\ readlink(db, X(0)) = Some(X(1))
    /\ readlink(db, X(1)) = Some(X(0))
    /\ ChainEnd(db, X(1)).end = "cycle"
    /\ stat(db, X(1)).res = "TooManySymlinks"

\* C18: when a path heads a chain of n symlinks that ends at an existing
\* inode that is no symlink, stat returns that inode's Stats for every n
\* from 0 to 40 and fails with TooManySymlinks for n greater than 40.
C18_DepthLimit ==
    \A path \in ChainPaths(db) :
        LET e == ChainEnd(db, path) IN
        e.end = "inode" =>
            IF e.hops <= max_symlink_depth
            THEN stat(db, path) = Some(build_stats_from_row(db, e.ino))
            ELSE stat(db, path).res = "TooManySymlinks"

\* C19: for a path whose final component is a symlink, lstat returns the
\* attributes of the symlink inode itself and stat those of the inode at
\* which the chain of symlinks ends; for a path whose final component is no
\* symlink, stat and lstat return the same Stats.
C19_StatFollowsLstatDoesNot ==
    \A path \in ChainPaths(db) :
        LET ino == resolve_path(db, normalize_path(path))
            e == ChainEnd(db, path)
        IN (ino # None /\ ino \in DOMAIN db.inode) =>
            IF IsSymlink(db, ino)
            THEN /\ lstat(db, path) = Some(build_stats_from_row(db, ino))
                 /\ FileType(lstat(db, path).val.mode) = S_IFLNK
                 /\ e.end = "inode"
                      => stat(db, path) = Some(build_stats_from_row(db, e.ino))
            ELSE stat(db, path) = lstat(db, path)

\* paths with a missing component in store d: the link after the last one
\* and a name under "/f"
MissingPaths(d) == {X(ChainLen(d) + 1), X(0) \o <<"/", "a">>}

\* C20: stat, lstat, read_file, readdir and readlink on a path with a
\* missing component return absent, and stat on a symlink whose chain
\* reaches a path that does not resolve returns absent.
C20_MissingIsAbsent ==
    /\ \A path \in MissingPaths(db) :
           /\ resolve_path(db, normalize_path(path)) = None
           /\ stat(db, path) = Absent
           /\ lstat(db, path) = Absent
           /\ read_file(db, path) = Absent
           /\ readdir(db, path) = Absent
           /\ readlink(db, path) = Absent
    /\ \A path \in ChainPaths(db) :
           ChainEnd(db, path).end = "missing" => stat(db, path) = Absent

\* C21: symlink(t, l) on a free path l with an existing parent succeeds
\* and creates exactly one inode, of mode 0o120777 and size |t|, one
\* fs_symlink row holding t and one dentry, whatever t is (dangling,
\* relative, empty, not normalised); afterwards readlink(l) returns Some(t).
C21_SymlinkCreates ==
    \A t \in TargetInputs, l \in CallPaths :
        LET path == normalize_path(l)
            cs == split_path(path)
            o == symlink(db, t, l, clock)
            created == DOMAIN o.db.inode \ DOMAIN db.inode
        IN (/\ cs # <<>>
            /\ resolve_path(db, ParentPathOf(cs)) # None
            /\ resolve_path(db, path) = None)
           => /\ o.f.res = "ok"
              /\ Cardinality(created) = 1
              /\ \A ino \in created :
                     /\ o.db.inode[ino].mode = SYMLINK_MODE
                     /\ o.db.inode[ino].size = Len(t)
                     /\ o.db.symlink =
                          db.symlink \cup {[ino |-> ino, target |-> t]}
                     /\ o.db.dentry =
                          db.dentry \cup
                            {[ino |-> ino, name |-> cs[Len(cs)],
                              parent_ino |-> resolve_path(db, ParentPathOf(cs))]}
              /\ \A ino \in DOMAIN db.inode : o.db.inode[ino] = db.inode[ino]
              /\ o.db.data = db.data
              /\ readlink(o.db, l) = Some(t)

C21_Witness ==
    /\ last.op = "symlink" /\ last.res = "ok"
    /\ last.target = <<"b">>
    /\ readlink(db, last.raw) = Some(last.target)
    /\ db.inode[last.ino].size = 1
    /\ Cardinality(db.symlink) = 2

\* the fs_symlink rows of ino
SymlinkRows(d, ino) == {s \in d.symlink : s.ino = ino}

\* C22: each inode of symlink type has exactly one fs_symlink row, and no
\* inode of another type and no deleted inode has one.
C22_SymlinkRows ==
    /\ \A ino \in DOMAIN db.inode :
           Cardinality(SymlinkRows(db, ino)) = IF IsSymlink(db, ino) THEN 1 ELSE 0
    /\ \A s \in db.symlink : s.ino \in DOMAIN db.inode

C22_Witness ==
    /\ last.op = "remove" /\ last.res = "ok"
    /\ last.ino \notin DOMAIN db.inode
    /\ Cardinality(db.symlink) = 1
    /\ \E ino \in DOMAIN db.inode : ino < last.ino /\ IsSymlink(db, ino)

\* C23: after every completed operation the size of each symlink inode is
\* the byte length of its stored target, and the inode owns no data chunk.
C23_SymlinkSize ==
    \A ino \in DOMAIN db.inode :
        IsSymlink(db, ino)
            => /\ \A s \in SymlinkRows(db, ino) : db.inode[ino].size = Len(s.target)
               /\ ChunksOfIno(db, ino) = {}

(***************************************************************************)
(* Directory listings: entries are created and removed under "/" and       *)
(* "/b", in any order, and listed with readdir.                            *)
(***************************************************************************)
\* the paths of the entries: "/b", "/a", "/ab", "/.a", "/b/a"
DirPaths ==
    {<<"/", "b">>, <<"/", "a">>, <<"/", "a", "b">>, <<"/", ".", "a">>,
     <<"/", "b", "/", "a">>}

\* the call returns if at most MaxEntries inodes were ever created
DirReturns(o) ==
    /\ Quiescent
    /\ o.db.seq <= MaxEntries + 1
    /\ db' = o.db
    /\ proc' = [proc EXCEPT ![1] = o.f]
    /\ UNCHANGED <<clock, calls, lock>>

DirMkdir == \E path \in DirPaths : DirReturns(mkdir(db, path, clock))

DirWriteFile ==
    \E path \in DirPaths : DirReturns(write_file(db, path, Bytes(0), clock))

DirRemove == \E path \in DirPaths : DirReturns(remove(db, path))

NextDir == DirMkdir \/ DirWriteFile \/ DirRemove

SpecDir == Init /\ [][NextDir]_vars

\* the paths readdir is called on: "/", "/b", "b/", "/a"
ListedPaths == {<<"/">>, <<"/", "b">>, <<"b", "/">>, <<"/", "a">>}

\* C24: readdir(d) on a directory returns exactly the names of the dentries
\* whose parent_ino is the inode of d, each name once, in ascending
\* byte-wise order, and never '.' or '..'.
C24_Readdir ==
    \A path \in ListedPaths :
        LET ino == resolve_path(db, path)
            r == readdir(db, path)
        IN (ino # None /\ IsDirectory(db, ino))
           => /\ r.res = "ok"
              /\ {r.val[i] : i \in DOMAIN r.val}
                     = {e.name : e \in {x \in db.dentry : x.parent_ino = ino}}
              /\ \A i, j \in DOMAIN r.val :
                     i < j => memcmp_less(r.val[i], r.val[j])
              /\ \A i \in DOMAIN r.val :
                     r.val[i] # <<".">> /\ r.val[i] # <<".", ".">>

C24_Witness ==
    /\ readdir(db, <<"/">>) = Some(<<<<".", "a">>, <<"a">>, <<"a", "b">>>>)
    /\ last.op = "mkdir" /\ last.res = "ok" /\ last.raw = <<"/", ".", "a">>

(***************************************************************************)
(* normalize_path as a function of its input: a call frame holds an input  *)
(* string in raw, and each step replaces path (initially the input) by     *)
(* normalize_path(path).                                                   *)
(***************************************************************************)
\* the characters of the input strings
Alphabet == {"/", ".", "a"}

\* every string over Alphabet of at most MaxLen characters, and
\* "/a/./b/../c", "/../..", "a/../b/"
NormInputs ==
    UNION {[1..n -> Alphabet] : n \in 0..MaxLen}
        \cup {<<"/", "a", "/", ".", "/", "b", "/", ".", ".", "/", "c">>,
              <<"/", ".", ".", "/", ".", ".">>,
              <<"a", "/", ".", ".", "/", "b", "/">>}

InitNorm ==
    /\ db = InitialStore
    /\ clock = 0
    /\ calls = [p \in Procs |-> 0]
    /\ lock = Unlocked
    /\ \E p \in NormInputs :
           proc = [q \in Procs |->
                      IF q = 1
                      THEN [Idle EXCEPT !.op = "normalize_path", !.raw = p,
                                        !.path = p]
                      ELSE Idle]

\* normalize_path is applied to the current string
Normalize ==
    /\ proc[1].op = "normalize_path"
    /\ proc[1].idx < MaxApplications
    /\ proc' = [proc EXCEPT ![1].path = normalize_path(@), ![1].idx = @ + 1]
    /\ UNCHANGED <<db, clock, calls, lock>>

NextNorm == Normalize

SpecNorm == InitNorm /\ [][NextNorm]_vars

\* C25: normalize_path is idempotent on every input string, absolute or
\* relative: a string normalize_path returned is returned unchanged when
\* normalize_path is applied to it.
C25_Idempotent ==
    (last.op = "normalize_path" /\ last.idx >= 1)
        => normalize_path(last.path) = last.path

\* the segments of a canonical path: the text after the leading '/' split on '/'
Segments(canonical) == split(Tail(canonical))

\* C26: for every input string, beginning with '/' or not, normalize_path
\* returns the result of the five rules applied in order (trim trailing '/',
\* prepend '/' if missing, split and drop empty segments, fold '.' and '..',
\* rejoin): the result begins with '/', has no empty, '.' or '..' segment and
\* no trailing '/' unless it is "/", and a '..' with nothing to pop is
\* discarded.
C26_FiveRules ==
    (last.op = "normalize_path" /\ last.idx = 1)
        => LET trimmed == trim_end_matches(last.raw)
               absolute == IF starts_with_slash(trimmed) THEN trimmed
                           ELSE <<"/">> \o trimmed
               folded == FoldDots(NonEmptyComponents(absolute), <<>>)
               r == last.path
           IN /\ r = <<"/">> \o JoinSlash(folded)
              /\ starts_with_slash(r)
              /\ r # <<"/">>
                    => /\ r[Len(r)] # "/"
                       /\ \A i \in DOMAIN Segments(r) :
                              Segments(r)[i] \notin {<<>>, <<".">>, <<".", ".">>}

(***************************************************************************)
(* Creating calls on arbitrary spellings of the paths.                     *)
(***************************************************************************)
PathMkdir == \E path \in PathInputs : Returns(mkdir(db, path, clock))

PathWriteFile ==
    \E path \in PathInputs : Returns(write_file(db, path, Bytes(0), clock))

PathSymlink ==
    \E path \in PathInputs : Returns(symlink(db, <<"b">>, path, clock))

NextPaths == PathMkdir \/ PathWriteFile \/ PathSymlink

SpecPaths == Init /\ [][NextPaths]_vars

\* C27: after any sequence of mkdir, write_file and symlink calls with
\* arbitrary path arguments (absolute or relative, with '.', '..', repeated
\* or trailing '/'), no dentry has a name that is empty, '.', '..' or
\* contains '/', and no two dentries share the same (parent_ino, name).
C27_DentryNames ==
    /\ \A e \in db.dentry :
           /\ e.name \notin {<<>>, <<".">>, <<".", ".">>}
           /\ \A i \in DOMAIN e.name : e.name[i] # "/"
    /\ \A e1, e2 \in db.dentry :
           (e1.parent_ino = e2.parent_ino /\ e1.name = e2.name) => e1 = e2

C27_Witness ==
    /\ last.op = "mkdir" /\ last.res = "ok"
    /\ last.raw = <<"/", "a", "/", ".", "/", "b", "/", "/">>
    /\ \E e1, e2 \in db.dentry :
           /\ e1.name = <<"a">> /\ e1.parent_ino = ROOT_INO
           /\ e2.name = <<"b">> /\ e2.parent_ino = e1.ino /\ e2.ino = last.ino

(***************************************************************************)
(* Hard links and symlinks together: the operations of SpecLink and        *)
(* symlink.                                                                *)
(***************************************************************************)
NextStat == NextLink \/ Symlink

SpecStat == Init /\ [][NextStat]_vars

\* C28: the nlink of every Stats returned by stat or lstat is the number of
\* dentries whose ino is that inode at the time of the call (0 for an inode
\* no dentry references); no inode row stores it.
C28_LinkCount ==
    /\ \A path \in CallPaths \cup LinkPaths :
           LET s == stat(db, path)
               l == lstat(db, path)
           IN /\ s.res = "ok" =>
                     s.val.nlink = Cardinality({e \in db.dentry : e.ino = s.val.ino})
              /\ l.res = "ok" =>
                     l.val.nlink = Cardinality({e \in db.dentry : e.ino = l.val.ino})
    /\ \A ino \in DOMAIN db.inode : "nlink" \notin DOMAIN db.inode[ino]

C28_Witness ==
    /\ stat(db, <<"/", "a", "/", "b">>).res = "ok"
    /\ stat(db, <<"/", "a", "/", "b">>).val.nlink = 2
    /\ lstat(db, <<"/", "a", "/", "b">>).val.nlink = 1
    /\ lstat(db, <<"/">>).val.nlink = 0

(***************************************************************************)
(* Opening: a Filesystem is opened on a fresh database or on the store the *)
(* handle of the model works on, at any time between two calls.  The       *)
(* mutating operations are those of a handle whose chunk_size is           *)
(* ChunkSize.                                                              *)
(***************************************************************************)
InitOpen ==
    /\ db \in {EmptyStore, InitialStore}
    /\ proc = [p \in Procs |-> Idle]
    /\ clock = 0
    /\ calls = [p \in Procs |-> 0]
    /\ lock = Unlocked

\* from_connection: initialize_schema, then read_chunk_size; the frame keeps
\* the chunk_size of the new handle in idx
Open ==
    /\ Quiescent
    /\ LET d == initialize_schema(db, clock) IN
           /\ db' = d
           /\ proc' = [proc EXCEPT ![1] = [Idle EXCEPT !.op = "open",
                                                        !.res = "ok",
                                                        !.idx = read_chunk_size(d)]]
    /\ UNCHANGED <<clock, calls, lock>>

\* a handle with chunk_size = ChunkSize is open on the store
HandleOpen == RootExists(db) /\ read_chunk_size(db) = ChunkSize

NextOpen == Open \/ (HandleOpen /\ Next) \/ Tick

SpecOpen == InitOpen /\ [][NextOpen]_vars

\* every row of the store
AllRows(d) == [Tables(d) EXCEPT !.inode = <<d.inode, d.config>>]

\* C29: opening a Filesystem on a store that is already initialised changes
\* no row (root inode, chunk_size row, inodes, dentries, chunks, symlink
\* rows), and chunk_size() returns the stored configuration value; on a
\* fresh store the row holds the text '4096' and chunk_size() is 4096.
C29_Reopen ==
    /\ (ConfigRowExists(db) /\ RootExists(db))
           => LET d == initialize_schema(db, clock) IN
              /\ AllRows(d) = AllRows(db)
              /\ \A r \in db.config : to_string(read_chunk_size(d)) = r.value
    /\ last.op = "open"
           => \A r \in db.config : to_string(last.idx) = r.value
    /\ LET fresh == initialize_schema(EmptyStore, clock) IN
           /\ fresh.config = {[key |-> "chunk_size", value |-> <<"4", "0", "9", "6">>]}
           /\ read_chunk_size(fresh) = DEFAULT_CHUNK_SIZE
           /\ DOMAIN fresh.inode = {ROOT_INO}

C29_Witness ==
    /\ last.op = "open" /\ last.idx = ChunkSize
    /\ db.dentry # {} /\ db.data # {} /\ db.symlink # {}
    /\ clock = MaxTime /\ db.inode[ROOT_INO].ctime = 0

\* the inodes a step creates
Created == DOMAIN db'.inode \ DOMAIN db.inode

\* C30: over any sequence of creating and removing operations inode numbers
\* are assigned in strictly increasing order starting at 2: a new inode's
\* number is above every number assigned before (the store's sequence),
\* hence never one freed by remove, and no row of the store carries it yet.
C30_InoNeverReused ==
    [][/\ db'.seq >= db.seq
       /\ \A ino \in Created :
              /\ ino > db.seq /\ ino <= db'.seq
              /\ db.seq = ROOT_INO => ino = 2
              /\ \A k \in DOMAIN db.inode : k < ino
              /\ last.op = "remove" /\ last.res = "ok" => ino > last.ino
              /\ \A e \in db.dentry : e.ino # ino
              /\ \A c \in db.data : c.ino # ino
              /\ \A t \in db.symlink : t.ino # ino]_vars

C30_Witness ==
    /\ last.op \in CreatingOps /\ last.res = "ok" /\ last.ino = 3
    /\ DOMAIN db.inode = {ROOT_INO, 3}

(***************************************************************************)
(* The permission gate of the NFS server (nfsserve/permissions.rs).  A     *)
(* call frame holds the credentials and the file attributes drawn, and one *)
(* call of check_permission or compute_access is made on them.             *)
(***************************************************************************)
S_IRUSR == 256
S_IWUSR == 128
S_IXUSR == 64
S_IRGRP == 32
S_IWGRP == 16
S_IXGRP == 8
S_IROTH == 4
S_IWOTH == 2
S_IXOTH == 1

ACCESS3_READ == 1
ACCESS3_LOOKUP == 2
ACCESS3_MODIFY == 4
ACCESS3_EXTEND == 8
ACCESS3_DELETE == 16
ACCESS3_EXECUTE == 32

\* enum Permission
Permission == {"Read", "Write", "Execute"}

RECURSIVE BitAnd(_, _)
\* a & b on u32
BitAnd(a, b) ==
    IF a = 0 \/ b = 0 THEN 0
    ELSE (a % 2) * (b % 2) + 2 * BitAnd(a \div 2, b \div 2)

RECURSIVE BitOr(_, _)
\* a | b on u32
BitOr(a, b) ==
    IF a = 0 THEN b
    ELSE IF b = 0 THEN a
    ELSE (IF a % 2 = 1 \/ b % 2 = 1 THEN 1 ELSE 0) + 2 * BitOr(a \div 2, b \div 2)

\* mutant: the auxiliary gids are not looked at
is_in_group_Primary(auth, gid) == auth.gid = gid

is_in_group(auth, gid) ==
    IF auth.gid = gid THEN TRUE
    ELSE \E i \in DOMAIN auth.gids : auth.gids[i] = gid

\* (read_bit, write_bit, exec_bit) of the class the caller falls in
ClassBits(auth, attr) ==
    IF auth.uid = attr.uid THEN <<S_IRUSR, S_IWUSR, S_IXUSR>>
    ELSE IF is_in_group(auth, attr.gid) THEN <<S_IRGRP, S_IWGRP, S_IXGRP>>
    ELSE <<S_IROTH, S_IWOTH, S_IXOTH>>

\* match perm { ... }
MatchPerm(mode, bits, perm) ==
    CASE perm = "Read" -> BitAnd(mode, bits[1]) # 0
      [] perm = "Write" -> BitAnd(mode, bits[2]) # 0
      [] perm = "Execute" -> BitAnd(mode, bits[3]) # 0

\* mutant: uid 0 is treated as any other caller
check_permission_NoRoot(auth, attr, perm) ==
    MatchPerm(attr.mode, ClassBits(auth, attr), perm)

check_permission(auth, attr, perm) ==
    IF auth.uid = 0 THEN TRUE
    ELSE MatchPerm(attr.mode, ClassBits(auth, attr), perm)

can_read(auth, attr) == check_permission(auth, attr, "Read")

can_write(auth, attr) == check_permission(auth, attr, "Write")

can_execute(auth, attr) == check_permission(auth, attr, "Execute")

\* mutant: the bit is granted whether or not it was requested
Grant_Unrequested(result, requested, bit, cond) ==
    IF cond THEN BitOr(result, bit) ELSE result

\* if (requested & bit) != 0 && cond { result |= bit }
Grant(result, requested, bit, cond) ==
    IF BitAnd(requested, bit) # 0 /\ cond THEN BitOr(result, bit) ELSE result

compute_access(auth, attr, requested) ==
    LET is_dir == attr.ftype = "NF3DIR"
        r1 == Grant(0, requested, ACCESS3_READ, can_read(auth, attr))
        r2 == Grant(r1, requested, ACCESS3_LOOKUP, is_dir /\ can_execute(auth, attr))
        r3 == Grant(r2, requested, ACCESS3_MODIFY, can_write(auth, attr))
        r4 == Grant(r3, requested, ACCESS3_EXTEND, can_write(auth, attr))
        r5 == Grant(r4, requested, ACCESS3_DELETE, is_dir /\ can_write(auth, attr))
    IN Grant(r5, requested, ACCESS3_EXECUTE, ~is_dir /\ can_execute(auth, attr))

\* the credentials: uid 0 .. MaxUid, primary gid 1, auxiliary gids none or [3]
Auths ==
    [uid : 0 .. MaxUid, gid : {1}, gids : {<<>>, <<3>>}]

\* permission bits of the files: every class empty or full, each single bit,
\* and common modes (0o644, 0o750, 0o755, 0o4755)
Modes ==
    {0, 7, 56, 63, 448, 455, 504, 511,
     S_IRUSR, S_IWUSR, S_IXUSR, S_IRGRP, S_IWGRP, S_IXGRP,
     S_IROTH, S_IWOTH, S_IXOTH, 420, 488, 493, 2541}

\* the attributes of the file: owner 1, group 1 .. MaxGid
Attrs ==
    [mode : Modes, uid : {1}, gid : 1 .. MaxGid,
     ftype : {"NF3REG", "NF3DIR", "NF3LNK"}]

InitPerm ==
    /\ db = InitialStore
    /\ clock = 0
    /\ calls = [p \in Procs |-> 0]
    /\ lock = Unlocked
    /\ \E auth \in Auths, attr \in Attrs :
           proc = [q \in Procs |->
                      IF q = 1
                      THEN [op |-> "none", pc |-> "done", auth |-> auth,
                            attr |-> attr, perm |-> "Read", requested |-> 0,
                            allowed |-> FALSE, access |-> 0]
                      ELSE Idle]

CheckPermission ==
    /\ proc[1].op = "none"
    /\ \E perm \in Permission :
           proc' = [proc EXCEPT ![1].op = "check_permission",
                                ![1].perm = perm,
                                ![1].allowed =
                                    check_permission(proc[1].auth, proc[1].attr, perm)]
    /\ UNCHANGED <<db, clock, calls, lock>>

ComputeAccess ==
    /\ proc[1].op = "none"
    /\ \E requested \in 0 .. MaxMask :
           proc' = [proc EXCEPT ![1].op = "compute_access",
                                ![1].requested = requested,
                                ![1].access =
                                    compute_access(proc[1].auth, proc[1].attr, requested)]
    /\ UNCHANGED <<db, clock, calls, lock>>

NextPerm == CheckPermission \/ ComputeAccess

SpecPerm == InitPerm /\ [][NextPerm]_vars

\* C31: check_permission returns true for every caller with uid 0, for
\* every mode, owner, group, file type and requested permission.
C31_RootAllowed ==
    (last.op = "check_permission" /\ last.auth.uid = 0) => last.allowed

C31_Witness ==
    /\ last.op = "check_permission" /\ last.auth.uid = 0 /\ last.allowed
    /\ last.attr.mode = 0 /\ last.perm = "Write" /\ last.attr.ftype = "NF3DIR"

\* the class the spec selects for a caller other than root
SelectedClass(auth, attr) ==
    IF auth.uid = attr.uid THEN "owner"
    ELSE IF attr.gid = auth.gid \/ \E i \in DOMAIN auth.gids : auth.gids[i] = attr.gid
         THEN "group"
    ELSE "other"

\* the rwx triplet (0 .. 7) of a class in mode
Triplet(mode, class) ==
    CASE class = "owner" -> (mode \div 64) % 8
      [] class = "group" -> (mode \div 8) % 8
      [] class = "other" -> mode % 8

\* the triplet has the bit of perm
TripletGrants(triplet, perm) ==
    CASE perm = "Read" -> (triplet \div 4) % 2 = 1
      [] perm = "Write" -> (triplet \div 2) % 2 = 1
      [] perm = "Execute" -> triplet % 2 = 1

\* C32: for a caller with uid other than 0, check_permission consults
\* exactly one permission class: owner when auth.uid is the file's uid, else
\* group when the file's gid is auth.gid or an auxiliary gid, else other;
\* the bits of the other two classes never grant access.
C32_OneClass ==
    (last.op = "check_permission" /\ last.auth.uid # 0)
        => last.allowed =
               TripletGrants(Triplet(last.attr.mode,
                                     SelectedClass(last.auth, last.attr)),
                             last.perm)

\* the owner of a file with mode 0o077 is denied, a member of an auxiliary
\* group of a file with mode 0o070 is allowed
C32_Witness ==
    /\ last.op = "check_permission" /\ last.auth.uid = 1 /\ last.attr.uid = 1
    /\ last.attr.mode = 63 /\ last.perm = "Read" /\ ~last.allowed

\* the ACCESS3 bit is set in mask
HasBit(mask, bit) == (mask \div bit) % 2 = 1

\* C33: compute_access returns exactly the requested bits the ACCESS3 table
\* grants (READ iff Read; LOOKUP iff directory and Execute; MODIFY and
\* EXTEND iff Write; DELETE iff directory and Write; EXECUTE iff not a
\* directory and Execute): the result is a subset of the requested mask and
\* of 0x3f, and LOOKUP and EXECUTE are never granted together.
C33_AccessTable ==
    last.op = "compute_access"
        => LET auth == last.auth
               attr == last.attr
               is_dir == attr.ftype = "NF3DIR"
               may(perm) == auth.uid = 0
                            \/ TripletGrants(Triplet(attr.mode,
                                                     SelectedClass(auth, attr)),
                                             perm)
               want(bit) == HasBit(last.requested, bit)
               got(bit) == HasBit(last.access, bit)
           IN /\ got(ACCESS3_READ) = (want(ACCESS3_READ) /\ may("Read"))
              /\ got(ACCESS3_LOOKUP)
                     = (want(ACCESS3_LOOKUP) /\ is_dir /\ may("Execute"))
              /\ got(ACCESS3_MODIFY) = (want(ACCESS3_MODIFY) /\ may("Write"))
              /\ got(ACCESS3_EXTEND) = (want(ACCESS3_EXTEND) /\ may("Write"))
              /\ got(ACCESS3_DELETE)
                     = (want(ACCESS3_DELETE) /\ is_dir /\ may("Write"))
              /\ got(ACCESS3_EXECUTE)
                     = (want(ACCESS3_EXECUTE) /\ ~is_dir /\ may("Execute"))
              /\ last.access < 64
              /\ \A bit \in {1, 2, 4, 8, 16, 32, 64} :
                     HasBit(last.access, bit) => HasBit(last.requested, bit)
              /\ ~(got(ACCESS3_LOOKUP) /\ got(ACCESS3_EXECUTE))

\* a directory with rwx for its owner, all of 0x7f requested
C33_Witness ==
    /\ last.op = "compute_access" /\ last.requested = 127
    /\ last.attr.ftype = "NF3DIR" /\ last.attr.mode = 448
    /\ last.auth.uid = 1 /\ last.access = 31

\* tasks p and q have both returned from a successful write_file on the same
\* path, with contents of different chunk counts
BothWrote(p, q) ==
    /\ p # q
    /\ Quiescent
    /\ proc[p].op = "write_file" /\ proc[q].op = "write_file"
    /\ proc[p].res = "ok" /\ proc[q].res = "ok"
    /\ normalize_path(proc[p].raw) = normalize_path(proc[q].raw)
    /\ NumChunks(proc[p].data) # NumChunks(proc[q].data)

\* C34: when two write_file calls on the same path with contents of
\* different chunk counts overlap, then once both have returned the file's
\* chunk indices are {0..k-1} with k = ceil(size / chunk_size) and read_file
\* returns a byte string of the inode's size that is the content of one of
\* the two calls.
C34_ConcurrentWrites ==
    \A p, q \in Procs :
        BothWrote(p, q)
            => LET ino == resolve_path(db, proc[p].raw)
                   r == read_file(db, proc[p].raw)
               IN /\ ino # None /\ ino \in DOMAIN db.inode
                  /\ ChunksDense(db, ino)
                  /\ r.res = "ok"
                  /\ Len(r.val) = db.inode[ino].size
                  /\ r.val \in {proc[p].data, proc[q].data}

(***************************************************************************)
(* Two creating calls on different paths that overlap: task 1 creates      *)
(* "/a", task 2 creates "/b", each with one call of mkdir, write_file or   *)
(* symlink.                                                                *)
(***************************************************************************)
\* the path task p creates
RacePath(p) == IF p = 1 THEN <<"/", "a">> ELSE <<"/", "b">>

\* task p makes its one call
RaceCalls(p, f) == calls[p] = 0 /\ Calls(p, f)

RaceMkdir(p) == RaceCalls(p, Begin("mkdir", RacePath(p), <<>>, <<>>, NoSnapshot))

RaceWriteFile(p) ==
    \E data \in TaskContents(p) :
        RaceCalls(p, Begin("write_file", RacePath(p), data, <<>>, NoSnapshot))

RaceSymlink(p) ==
    \E target \in TaskTargets :
        RaceCalls(p, Begin("symlink", RacePath(p), <<>>, target, NoSnapshot))

NextRace ==
    \E p \in Procs :
        \/ RaceMkdir(p)
        \/ RaceWriteFile(p)
        \/ RaceSymlink(p)
        \/ StoreCall(p)

SpecRace == Init /\ [][NextRace]_vars

\* the mode of the inode a creating operation inserts
ModeOf(op) ==
    CASE op = "mkdir" -> DEFAULT_DIR_MODE
      [] op = "write_file" -> DEFAULT_FILE_MODE
      [] op = "symlink" -> SYMLINK_MODE

\* C35: under every interleaving of two creating operations on different
\* paths, the dentry each operation inserts references the inode the same
\* operation inserted (what it reads from last_insert_rowid is its own), so
\* no inode is left without a dentry and no directory inode is referenced
\* by two dentries.
C35_OwnInode ==
    (Quiescent /\ \A p \in Procs : proc[p].op \in CreatingOps /\ proc[p].res = "ok")
        => /\ proc[1].ino # proc[2].ino
           /\ \A p \in Procs :
                  /\ proc[p].ino \in DOMAIN db.inode
                  /\ db.inode[proc[p].ino].mode = ModeOf(proc[p].op)
                  /\ \E e \in db.dentry :
                         /\ e.ino = proc[p].ino /\ e.parent_ino = ROOT_INO
                         /\ <<"/">> \o e.name = RacePath(p)
           /\ NoOrphan(db)
           /\ \A ino \in DOMAIN db.inode :
                  IsDirectory(db, ino) => get_link_count(db, ino) <= 1

(***************************************************************************)
(* remove of an empty directory that overlaps a creating call inside it:   *)
(* the store holds the empty directory "/a"; task 1 calls remove("/a"),    *)
(* task 2 calls mkdir, write_file or symlink on "/a/b".                    *)
(***************************************************************************)
\* the store after mkdir("/a") on the initial store
StoreWithDir == mkdir(InitialStore, <<"/", "a">>, 0).db

InitRmdir ==
    /\ db = StoreWithDir
    /\ proc = [p \in Procs |-> Idle]
    /\ clock = 0
    /\ calls = [p \in Procs |-> 0]
    /\ lock = Unlocked

RmdirRemove ==
    RaceCalls(1, Begin("remove", <<"/", "a">>, <<>>, <<>>, NoSnapshot))

RmdirMkdir ==
    RaceCalls(2, Begin("mkdir", <<"/", "a", "/", "b">>, <<>>, <<>>, NoSnapshot))

RmdirWriteFile ==
    \E data \in TaskContents(2) :
        RaceCalls(2, Begin("write_file", <<"/", "a", "/", "b">>, data, <<>>,
                           NoSnapshot))

RmdirSymlink ==
    \E target \in TaskTargets :
        RaceCalls(2, Begin("symlink", <<"/", "a", "/", "b">>, <<>>, target,
                           NoSnapshot))

NextRmdir ==
    \/ RmdirRemove
    \/ RmdirMkdir
    \/ RmdirWriteFile
    \/ RmdirSymlink
    \/ \E p \in Procs : StoreCall(p)

SpecRmdir == InitRmdir /\ [][NextRmdir]_vars

\* C36: when remove(d) on an empty directory d overlaps an operation that
\* creates d/x, then once both have returned no dentry has a parent_ino
\* whose inode row was deleted: the create fails because d is gone or the
\* remove fails because d is not empty.
C36_RemoveVsCreate ==
    (Quiescent /\ proc[1].op = "remove" /\ proc[2].op \in CreatingOps)
        => /\ \A e \in db.dentry : e.parent_ino \in DOMAIN db.inode
           /\ proc[1].res # "ok" \/ proc[2].res # "ok"

(***************************************************************************)
(* MutexFsAdapter (cli/src/mount/fuse.rs): every trait method is           *)
(*     self.inner.lock().await.<op>(...).await                             *)
(* The task waits for the Mutex (pc "lock"), runs the inner operation one  *)
(* Store call at a time while the guard, a temporary of the statement,     *)
(* lives (pc "begin", then the pcs of Step), and drops the guard when the  *)
(* inner call has                                                          *)
(* returned, with Ok or with Err (pc "unlock").  The inner operations are  *)
(* those of Filesystem.                                                    *)
(***************************************************************************)
\* the method is called: the future of lock() is awaited first
AdapterCalls(p, op, raw, target) ==
    Calls(p, [Idle EXCEPT !.op = op, !.raw = raw, !.target = target,
                          !.pc = "lock", !.res = "none"])

AdapterMkdir(p) == \E path \in TaskPaths : AdapterCalls(p, "mkdir", path, <<>>)

AdapterSymlink(p) ==
    \E target \in TaskTargets, linkpath \in TaskPaths :
        AdapterCalls(p, "symlink", linkpath, target)

AdapterRemove(p) == \E path \in TaskPaths : AdapterCalls(p, "remove", path, <<>>)

\* the inner call has returned: what is left is to drop the guard
Returning(f) == IF f.pc = "done" THEN [f EXCEPT !.pc = "unlock"] ELSE f

\* mutant: the guard is dropped before the inner call starts
GuardOf_Dropped(p) == Unlocked

\* the MutexGuard returned by lock().await lives to the end of the
\* statement: the Mutex is held by p while the inner call runs
GuardOf(p) == p

\* lock().await completes: the inner call is about to start (pc "begin")
Acquire(p) ==
    /\ proc[p].pc = "lock"
    /\ lock = Unlocked
    /\ lock' = GuardOf(p)
    /\ proc' = [proc EXCEPT ![p].pc = "begin"]
    /\ UNCHANGED <<db, clock, calls>>

\* the task is inside the inner call
Executing(p) == proc[p].pc \notin {"done", "lock", "unlock"}

\* the inner call runs to its next await: from its start to its first Store
\* call, or one Store call completes
InnerStep(d, f, pick, now) ==
    IF f.pc = "begin"
    THEN Out(d, Begin(f.op, f.raw, <<>>, f.target, NoSnapshot))
    ELSE Step(d, f, pick, now)

InnerCall(p) ==
    /\ Executing(p)
    /\ \E pick \in 1 .. MaxIno :
           LET o == InnerStep(db, proc[p], pick, clock) IN
           /\ WithinBounds(o.db)
           /\ db' = o.db
           /\ proc' = [proc EXCEPT ![p] = Returning(o.f)]
    /\ UNCHANGED <<clock, calls, lock>>

\* mutant: the guard is dropped only when the inner call returned Ok
DropsGuard_OnOk(f) == f.res = "ok"

\* the guard is dropped at the end of the statement whatever the inner call
\* returned
DropsGuard(f) == TRUE

\* the adapter method returns what the inner call returned
Release(p) ==
    /\ proc[p].pc = "unlock"
    /\ lock' = IF DropsGuard(proc[p]) THEN Unlocked ELSE lock
    /\ proc' = [proc EXCEPT ![p].pc = "done"]
    /\ UNCHANGED <<db, clock, calls>>

NextMutex ==
    \E p \in Procs :
        \/ AdapterMkdir(p)
        \/ AdapterSymlink(p)
        \/ AdapterRemove(p)
        \/ Acquire(p)
        \/ InnerCall(p)
        \/ Release(p)

SpecMutex == Init /\ [][NextMutex]_vars

\* C37: through MutexFsAdapter at most one operation of the wrapped
\* filesystem is executing at any time: a method holds the lock from before
\* the inner call starts until it has returned, so the Store calls of two
\* operations never interleave.
C37_OneAtATime ==
    /\ [](\A p \in Procs : (Executing(p) \/ proc[p].pc = "unlock") => lock = p)
    /\ [](\A p, q \in Procs : (p # q /\ Executing(p)) => ~Executing(q))
    /\ [][\A p \in Procs :
              (db' # db /\ Executing(p))
                  => \A q \in Procs \ {p} : proc'[q] = proc[q]]_vars

\* a task is in the middle of its inner call while the other waits for the lock
C37_Witness ==
    /\ proc[1].op = "mkdir" /\ proc[1].pc = "rowid" /\ lock = 1
    /\ proc[2].pc = "lock" /\ proc[2].op = "mkdir" /\ proc[2].raw = proc[1].raw

\* the scheduling the adapter relies on: a Store call that can complete
\* does (each inner operation terminates), a guard that can be dropped is,
\* and the Mutex is fair to a task that keeps waiting for it
\* InnerCall(p) is the only step that changes the frame of a task that is
\* inside its inner call, and such a task can always take it, so weak
\* fairness of InnerCall(p) is written out over these two conditions
InnerProgress(p) == Executing(p) /\ proc'[p] # proc[p]

FairMutex ==
    \A p \in Procs :
        /\ []<>(~Executing(p)) \/ []<><<InnerProgress(p)>>_vars
        /\ WF_vars(Release(p))
        /\ SF_vars(Acquire(p))

\* the calls of the fair runs: mkdir and remove on "/a"
NextMutexFair ==
    \E p \in Procs :
        \/ AdapterCalls(p, "mkdir", <<"/", "a">>, <<>>)
        \/ AdapterCalls(p, "remove", <<"/", "a">>, <<>>)
        \/ Acquire(p)
        \/ InnerCall(p)
        \/ Release(p)

SpecMutexFair == Init /\ [][NextMutexFair]_vars /\ FairMutex

\* C38: every call through MutexFsAdapter eventually acquires the lock and
\* returns, given that inner operations terminate and the lock is fair: no
\* method requests the lock while it holds it, and the lock is released
\* when the inner call returns an error as well as when it succeeds.
C38_EventuallyReturns ==
    /\ \A p \in Procs : (proc[p].pc = "lock") ~> (proc[p].pc = "done")
    /\ [](\A p \in Procs : proc[p].pc \in {"lock", "done"} => lock # p)
    /\ [](\A p \in Procs :
              Executing(p) =>
                  \E pick \in 1 .. MaxIno :
                      LET o == InnerStep(db, proc[p], pick, clock) IN
                      WithinBounds(o.db) /\ Returning(o.f) # proc[p])

\* a call has returned an error and the other task's call has the lock
C38_Witness ==
    /\ proc[1].pc = "done" /\ proc[1].op = "mkdir" /\ proc[1].res = "Exists"
    /\ proc[2].pc = "count_children" /\ lock = 2

(***************************************************************************)
(* Resolution through a symbolic link in the middle of a path: the calls   *)
(* build "/d", "/d/b" and the link "/a"; "/a/b" can also be created below  *)
(* the link's own inode, since mkdir and write_file do not check the type  *)
(* of the parent.                                                          *)
(***************************************************************************)
\* "/a", "/d", "/d/b", "/a/b"
FollowPaths ==
    {<<"/", "a">>, <<"/", "d">>, <<"/", "d", "/", "b">>,
     <<"/", "a", "/", "b">>}

\* the targets "/d" and "d"
FollowTargets == {<<"/", "d">>, <<"d">>}

FollowMkdir == \E path \in FollowPaths : DirReturns(mkdir(db, path, clock))

FollowWriteFile ==
    \E path \in FollowPaths :
        DirReturns(write_file(db, path, Bytes(1), clock))

FollowSymlink ==
    \E target \in FollowTargets, linkpath \in FollowPaths :
        DirReturns(symlink(db, target, linkpath, clock))

NextFollow == FollowMkdir \/ FollowWriteFile \/ FollowSymlink

SpecFollow == Init /\ [][NextFollow]_vars

\* "/a" is a symlink whose target names the directory "/d", "/d/b" exists
\* and no dentry has the inode of "/a" as parent
LinkToDir ==
    LET a == resolve_path(db, <<"/", "a">>)
        dir == resolve_path(db, <<"/", "d">>) IN
    /\ a # None /\ dir # None
    /\ FileType(db.inode[a].mode) = S_IFLNK
    /\ FileType(db.inode[dir].mode) = S_IFDIR
    /\ stat(db, <<"/", "a">>) = Some(build_stats_from_row(db, dir))
    /\ resolve_path(db, <<"/", "d", "/", "b">>) # None
    /\ \A e \in db.dentry : e.parent_ino # a

\* C39: resolution never follows a symlink that is not the final component:
\* when "/a" is a symlink to the directory "/d", "/d/b" exists and no dentry
\* has the inode of "/a" as parent, stat, lstat, read_file and readdir on
\* "/a/b" return absent.
C39_NoMidPathFollow ==
    LinkToDir =>
        /\ stat(db, <<"/", "a", "/", "b">>) = Absent
        /\ lstat(db, <<"/", "a", "/", "b">>) = Absent
        /\ read_file(db, <<"/", "a", "/", "b">>) = Absent
        /\ readdir(db, <<"/", "a", "/", "b">>) = Absent

\* "/a" links to "/d", "/d/b" is a file that stat finds, "/a/b" is absent
C39_Witness ==
    /\ LinkToDir
    /\ stat(db, <<"/", "d", "/", "b">>).res = "ok"
    /\ read_file(db, <<"/", "d", "/", "b">>) = Some(Bytes(1))
    /\ stat(db, <<"/", "a", "/", "b">>) = Absent
    /\ last.op = "symlink" /\ last.res = "ok"

\* the rows of inode ino: its fs_inode row, its chunks and its symlink row
RowsOf(d, ino) ==
    [inode |-> IF ino \in DOMAIN d.inode THEN {d.inode[ino]} ELSE {},
     data |-> {c \in d.data : c.ino = ino},
     symlink |-> {s \in d.symlink : s.ino = ino}]

\* the chunks that hold data for inode ino
ChunksFor(ino, data) ==
    {[ino |-> ino, chunk_index |-> i, data |-> ChunkOf(data, i)] :
         i \in 0 .. NumChunks(data) - 1}

\* this step is the call write_file(path, data) made at time `clock`
IsWriteFile(path, data) ==
    LET o == write_file(db, path, data, clock) IN
    /\ last'.op = "write_file"
    /\ last'.raw = path
    /\ db' = o.db
    /\ last' = o.f

\* what write_file(path, data) leaves behind when path named the regular
\* file ino before the call
Overwritten(ino, data) ==
    /\ last'.res = "ok"
    /\ DOMAIN db'.inode = DOMAIN db.inode
    /\ db'.dentry = db.dentry
    /\ db'.inode[ino].mode = db.inode[ino].mode
    /\ db'.inode[ino].uid = db.inode[ino].uid
    /\ db'.inode[ino].gid = db.inode[ino].gid
    /\ db'.inode[ino].atime = db.inode[ino].atime
    /\ db'.inode[ino].size = Len(data)
    /\ db'.inode[ino].mtime = clock
    /\ {c \in db'.data : c.ino = ino} = ChunksFor(ino, data)
    /\ \A other \in DOMAIN db.inode \ {ino} :
           RowsOf(db', other) = RowsOf(db, other)
    /\ db'.symlink = db.symlink

\* C40: write_file(p, b) on a path that already names a regular file keeps
\* the inode's number, every dentry referencing it and its mode, uid, gid
\* and atime; it removes every chunk stored before, sets size = |b| and
\* mtime = the time of the call, and changes no row of any other inode.
C40_Overwrite ==
    [][\A path \in CallPaths, data \in WrittenContents :
           LET before == lstat(db, path) IN
           (/\ before.res = "ok"
            /\ FileType(before.val.mode) = S_IFREG
            /\ IsWriteFile(path, data))
               => Overwritten(before.val.ino, data)]_vars

\* "/a" was written with three bytes at time 0 and overwritten with none at
\* time 1, next to the file "/a/b": its chunks are gone, its atime is kept
C40_Witness ==
    LET a == resolve_path(db, <<"/", "a">>) IN
    /\ last.op = "write_file" /\ last.res = "ok" /\ last.raw = <<"/", "a">>
    /\ a # None /\ a = last.ino
    /\ FileType(db.inode[a].mode) = S_IFREG
    /\ db.inode[a].atime = 0 /\ db.inode[a].mtime = 1
    /\ db.inode[a].size = 0
    /\ {c \in db.data : c.ino = a} = {}
    /\ \E c \in db.data : c.ino # a

====
